---------------------------- MODULE Spec2Model ----------------------------
(***************************************************************************)
(* Model of the PWM reader firmware in its variants (Arduino UNO R3): the   *)
(* control firmware, which also accepts commands and drives two outputs,   *)
(* the recorder firmware (pwm_recorder.ino), the sampling tick of          *)
(* enhanced_pwm_recorder.ino and the debug PWM reader.                     *)
(*                                                                         *)
(* Conventions.                                                            *)
(*  - An Arduino String is a sequence of one-character strings; indexes    *)
(*    handed to and returned by the String operators are 0-based, as in    *)
(*    the C++ API.                                                         *)
(*  - A float is an integer count of 1/Scale units (fixed point, five      *)
(*    decimal digits), or the value NaN.  Serial.print(x, 4) rounds to     *)
(*    four decimals, so formatting is lossy in the model as on the board.  *)
(*  - unsigned long is an integer modulo WordModulus.  TLC's integers are  *)
(*    32-bit signed, so the 32-bit registers of the board are modelled     *)
(*    with a narrower word; every register operation reduces modulo        *)
(*    WordModulus exactly as the board reduces modulo 2^32.                *)
(*  - Every step records what it wrote (out), the line it processed        *)
(*    (command), the handler run it was (edge) and the mode, target and    *)
(*    receive buffer it started from (pre), so that the effect of one      *)
(*    step can be stated as a state predicate.                             *)
(*                                                                         *)
(* Specifications.                                                         *)
(*  - Spec: the control firmware, any inbound line read in any loop        *)
(*    iteration, a few input transitions at any time.                      *)
(*  - SpecSignal: either firmware fed one of a set of input signals with   *)
(*    exact edge times; SpecWrap: the same around the wrap of the          *)
(*    microsecond counter; SpecFrame: the same with commands processed.    *)
(*  - SpecLatch: the control firmware with the interrupt requests of the   *)
(*    two pins and the masked sections of the sampling tick.               *)
(*  - SpecSerial: the control firmware with the serial receive buffer and  *)
(*    with the time its output pulses take.                                *)
(*  - SpecLive: the control firmware running on under fair scheduling of   *)
(*    the main program, with inbound lines, partial lines and edges.       *)
(*  - SpecSteady: the recorder firmware fed a steady signal on each pin,   *)
(*    in several phases relative to the sampling ticks.                    *)
(*  - SpecSample: one sampling tick of each firmware (the third one being  *)
(*    enhanced_pwm_recorder.ino) for a range of measurements.              *)
(*  - SpecPartial: the control firmware reading bytes that no line         *)
(*    terminator follows; SpecMillis: either firmware around the wrap of   *)
(*    the millisecond counter.                                             *)
(*  - SpecDebug: the debug PWM reader, its counters and its reports.       *)
(***************************************************************************)
EXTENDS Integers, Sequences, FiniteSets, TLC

\* ------------------------------------------------------------------
\* Bounds of the model
\* ------------------------------------------------------------------
\* Largest value of the microsecond clock explored, in sampling periods.
MaxPeriods == 2
\* Largest number of input-pin transitions explored in one run.
MaxEdges == 1
\* Command-channel silence (in sampling periods) after which the documented
\* timeout protection is expected to have acted.
WatchdogPeriods == 1
\* Largest number of transitions of an input signal explored.
MaxSignalEdges == 4
\* Largest number of lines waiting in the serial receive buffer.
MaxBuffered == 2

\* ------------------------------------------------------------------
\* Number representation
\* ------------------------------------------------------------------
Scale == 100000
NaN == 2000000000
Infinity == 1000000000
WordModulus == 1048576

U32(x) == x % WordModulus

Abs(x) == IF x < 0 THEN -x ELSE x

\* C integer division truncates toward zero.
TruncDiv(a, b) == IF (a < 0) = (b < 0) THEN Abs(a) \div Abs(b) ELSE -(Abs(a) \div Abs(b))

\* IEEE comparisons: every comparison with NaN is false.
FLess(a, b) == a # NaN /\ b # NaN /\ a < b
FGreater(a, b) == a # NaN /\ b # NaN /\ a > b

\* #define constrain(amt,low,high) ((amt)<(low)?(low):((amt)>(high)?(high):(amt)))
constrain(amt, low, high) ==
  IF FLess(amt, low) THEN low ELSE IF FGreater(amt, high) THEN high ELSE amt

\* ------------------------------------------------------------------
\* Arduino String operators
\* ------------------------------------------------------------------
DigitChars == <<"0", "1", "2", "3", "4", "5", "6", "7", "8", "9">>
IsDigit(c) == c \in {"0", "1", "2", "3", "4", "5", "6", "7", "8", "9"}
DigitVal(c) ==
  CASE c = "0" -> 0 [] c = "1" -> 1 [] c = "2" -> 2 [] c = "3" -> 3 [] c = "4" -> 4
    [] c = "5" -> 5 [] c = "6" -> 6 [] c = "7" -> 7 [] c = "8" -> 8 [] c = "9" -> 9
IsSpace(c) == c \in {" ", "\t", "\r", "\n"}

LowerCase(c) ==
  CASE c = "N" -> "n" [] c = "A" -> "a" [] c = "I" -> "i" [] c = "F" -> "f"
    [] OTHER -> c

\* Position of the first non-space character of s from i on (Len(s) + 1 if none).
RECURSIVE SkipSpaces(_, _)
SkipSpaces(s, i) ==
  IF i <= Len(s) /\ IsSpace(s[i]) THEN SkipSpaces(s, i + 1) ELSE i

\* Position of the last non-space character of s at or before i (0 if none).
RECURSIVE SkipSpacesBack(_, _)
SkipSpacesBack(s, i) ==
  IF i >= 1 /\ IsSpace(s[i]) THEN SkipSpacesBack(s, i - 1) ELSE i

\* String::trim(): drop leading and trailing whitespace.
trim(s) ==
  LET first == SkipSpaces(s, 1)
      last == SkipSpacesBack(s, Len(s))
  IN  IF first > last THEN <<>> ELSE SubSeq(s, first, last)

\* String::startsWith(prefix)
startsWith(s, prefix) ==
  Len(s) >= Len(prefix) /\ SubSeq(s, 1, Len(prefix)) = prefix

\* 0-based index of the first i >= from with s[i .. i + Len(s2) - 1] = s2, or -1.
RECURSIVE Find(_, _, _)
Find(s, s2, from) ==
  IF from + Len(s2) > Len(s) THEN -1
  ELSE IF SubSeq(s, from + 1, from + Len(s2)) = s2 THEN from
  ELSE Find(s, s2, from + 1)

\* String::indexOf(char ch, unsigned int fromIndex): 0-based index or -1.
indexOf(s, ch, fromIndex) ==
  IF fromIndex >= Len(s) THEN -1 ELSE Find(s, <<ch>>, fromIndex)

\* String::indexOf(const String &s2): 0-based index of the first occurrence or -1.
indexOfString(s, s2) == Find(s, s2, 0)

\* String::substring(left, right): the characters [left, right).
substring(s, left, right) ==
  LET l == IF left > right THEN right ELSE left
      r0 == IF left > right THEN left ELSE right
      r == IF r0 > Len(s) THEN Len(s) ELSE r0
  IN  IF l >= Len(s) THEN <<>> ELSE SubSeq(s, l + 1, r)

\* Number of consecutive decimal digits of s from (1-based) position i on.
RECURSIVE DigitRun(_, _)
DigitRun(s, i) ==
  IF i <= Len(s) /\ IsDigit(s[i]) THEN 1 + DigitRun(s, i + 1) ELSE 0

\* Value of the n decimal digits of s from position i on.
RECURSIVE DigitsValue(_, _, _)
DigitsValue(s, i, n) ==
  IF n = 0 THEN 0 ELSE DigitsValue(s, i, n - 1) * 10 + DigitVal(s[i + n - 1])

Pow10(k) == CASE k = 0 -> 1 [] k = 1 -> 10 [] k = 2 -> 100 [] k = 3 -> 1000
              [] k = 4 -> 10000 [] OTHER -> 100000

\* String::toFloat(): atof() of the buffer.  Leading whitespace, an optional
\* sign, then NAN / INF (any case) or decimal digits with an optional
\* fraction; parsing stops at the first character that does not fit and a
\* string with no number in it yields 0.  Fraction digits beyond the fifth
\* are below the resolution of the model.  (No exponent part is read: the
\* lines explored carry none.)
toFloat(s) ==
  LET i0 == SkipSpaces(s, 1)
      signed == i0 <= Len(s) /\ s[i0] \in {"-", "+"}
      neg == signed /\ s[i0] = "-"
      i1 == IF signed THEN i0 + 1 ELSE i0
      word == [k \in 1..3 |-> IF i1 + k - 1 <= Len(s) THEN LowerCase(s[i1 + k - 1]) ELSE ""]
      nInt == DigitRun(s, i1)
      iDot == i1 + nInt
      hasDot == iDot <= Len(s) /\ s[iDot] = "."
      nFrac == IF hasDot THEN DigitRun(s, iDot + 1) ELSE 0
      kept == IF nFrac > 5 THEN 5 ELSE nFrac
      mag == DigitsValue(s, i1, nInt) * Scale
               + DigitsValue(s, iDot + 1, kept) * Pow10(5 - kept)
  IN  IF word = <<"n", "a", "n">> THEN NaN
      ELSE IF word = <<"i", "n", "f">> THEN (IF neg THEN -Infinity ELSE Infinity)
      ELSE IF nInt = 0 /\ nFrac = 0 THEN 0
      ELSE IF neg THEN -mag ELSE mag

\* Print::printNumber(unsigned long, 10): the decimal digits of n.
RECURSIVE printNumber(_)
printNumber(n) ==
  IF n < 10 THEN <<DigitChars[n + 1]>>
  ELSE printNumber(n \div 10) \o <<DigitChars[(n % 10) + 1]>>

\* Print::printFloat(number, 4): "nan", "inf", or sign, integer part, '.',
\* and four decimals of the number rounded half up at the fourth decimal.
printFloat4(number) ==
  IF number = NaN THEN <<"n", "a", "n">>
  ELSE IF Abs(number) >= Infinity THEN <<"i", "n", "f">>
  ELSE LET rounded == Abs(number) + 5
           int_part == rounded \div Scale
           remainder == (rounded % Scale) \div 10
       IN  (IF number < 0 THEN <<"-">> ELSE <<>>)
             \o printNumber(int_part) \o <<".">>
             \o <<DigitChars[(remainder \div 1000) + 1],
                  DigitChars[((remainder \div 100) % 10) + 1],
                  DigitChars[((remainder \div 10) % 10) + 1],
                  DigitChars[(remainder % 10) + 1]>>


\* floor(a * Scale / b) for 0 <= a < b, by long division (five decimals).
RECURSIVE Frac(_, _, _)
Frac(a, b, digits) ==
  IF digits = 0 THEN 0
  ELSE ((a * 10) \div b) * Pow10(digits - 1) + Frac((a * 10) % b, b, digits - 1)

\* The float quotient num / den in Scale units, for den > 0, truncated to
\* five decimals; quotients beyond the range of the model are Infinity.
Quotient(num, den) ==
  LET whole == Abs(num) \div den
      magnitude == IF whole >= Infinity \div Scale THEN Infinity
                   ELSE whole * Scale + Frac(Abs(num) % den, den, 5)
  IN  IF num < 0 THEN -magnitude ELSE magnitude

\* The float product x * m / d for a float x and integers m, d > 0.
MulDiv(x, m, d) ==
  LET magnitude == IF Abs(x) >= Infinity THEN Infinity
                   ELSE (Abs(x) \div d) * m + ((Abs(x) % d) * m) \div d
  IN  IF x < 0 THEN -magnitude ELSE magnitude

\* ------------------------------------------------------------------
\* Configuration and calibration constants
\* ------------------------------------------------------------------
SAMPLE_RATE_MS == 33
THROTTLE_OUTPUT_PIN == 9
STEERING_OUTPUT_PIN == 10
SERVO_MIN_PULSE == 1000
SERVO_MAX_PULSE == 2000
SERVO_NEUTRAL_PULSE == 1500
LOW == 0
HIGH == 1
\* enhanced_pwm_recorder.ino
STEERING_NEUTRAL_US == 1491
STEERING_RANGE_US == 450

\* ------------------------------------------------------------------
\* String literals of the firmware and the inbound lines explored
\* ------------------------------------------------------------------
S_CTRL == <<"C", "T", "R", "L", ",">>
S_MODE == <<"M", "O", "D", "E", ",">>
S_AUTO == <<"A", "U", "T", "O">>
S_MANUAL == <<"M", "A", "N", "U", "A", "L">>
S_STATUS == <<"S", "T", "A", "T", "U", "S">>
S_CTRL_ACK == <<"C", "T", "R", "L", "_", "A", "C", "K", ",">>
S_MODE_ACK == <<"M", "O", "D", "E", "_", "A", "C", "K", ",">>
S_READY == <<"A", "R", "D", "U", "I", "N", "O", "_", "R", "E", "A", "D", "Y">>
S_DATA == <<"D", "A", "T", "A", ",">>
Comma == <<",">>

\* What loop() holds as command while Serial.available() was false.
NoCommand == <<"<no command>">>

\* Lines the host may send (without the terminating newline).
InboundLines ==
  { S_CTRL \o <<"0", ".", "5", ",", "0", ".", "3">>,
    S_CTRL \o <<"2", ".", "0", ",", "-", "1">>,
    S_CTRL \o <<"0", ".", "5", ",", "0", ".", "3", ",">>,
    S_CTRL \o <<"-", "7", ",", "1", ".", "5", ",", "0">>,
    S_CTRL \o <<"-", "0", ".", "1", "2", "3", "4", "5", ",", ".", "2", ",", "x">>,
    S_CTRL \o <<"n", "a", "n", ",", "0", ".", "5", ",">>,
    S_CTRL \o <<"a", "b", ",", "c", ",">>,
    S_MODE \o S_AUTO,
    S_MODE \o S_MANUAL,
    <<" ">> \o S_MODE \o S_AUTO \o <<"\r">>,
    S_MODE \o S_AUTO \o <<"M", "A", "T", "I", "C">>,
    S_MODE \o <<"X">> \o S_AUTO,
    S_MODE \o <<"X">>,
    S_STATUS,
    S_STATUS \o <<"X">>,
    <<"H", "E", "L", "L", "O">> }

\* ------------------------------------------------------------------
\* State
\* ------------------------------------------------------------------
VARIABLES
  pc,                    \* position of the main program: setup, loop, steering, throttle,
                         \* servo_steering, servo_throttle (control firmware);
                         \* recorder_setup, recorder_loop (recorder firmware);
                         \* enhanced_loop (enhanced_pwm_recorder.ino);
                         \* debug_loop, debug_report (debug PWM reader)
  clock,                 \* microseconds since reset (the hardware timer)
  throttle_pin,          \* level of the throttle input pin
  steering_pin,          \* level of the steering input pin
  throttle_flag,         \* throttle pin transitions whose interrupt request is not served yet
  steering_flag,         \* (the levels they led to, oldest first; the request bit is set
                         \* when there is one)
  throttle_lastRise,     \* the volatile globals
  throttle_highTime,
  throttle_period,
  throttle_newCycle,
  steering_lastRise,
  steering_highTime,
  steering_period,
  steering_newCycle,
  throttle_lastRiseTime, \* static lastRiseTime of handleThrottleInterrupt
  steering_riseTime,     \* static riseTime of handleSteeringInterrupt
  autonomous_mode,
  target_steering,
  target_throttle,
  lastSampleTime,        \* static lastSampleTime of loop()
  currentTime,           \* locals of loop(), live across the sampling tick
  command,
  steer_norm,
  steer_raw,
  steer_period_val,
  rxBuffer,              \* serial receive buffer: lines received and not read yet
  signal,                \* transitions of the input pins still to come, with their times
  out,                   \* what the last step wrote: serial lines and output pulses, in order
  pre,                   \* mode, target and receive buffer before the last step
  readyWritten,          \* number of ARDUINO_READY lines written so far
  sinceManual,           \* MODE,MANUAL was processed and no CTRL was accepted since
  lastRx,                \* clock at the last inbound line (at reset before any)
  nEdges,                \* input-pin transitions so far
  rises,                 \* rising edges handled so far on each channel (counted up to 2)
  edge,                  \* the handler run of the last step, if it was one
  seen                   \* the shared values the masked sections of the last tick found
                         \* and the values normalized from them

\* The debug PWM reader (another program for the same board).
VARIABLES
  throttle_interrupts,   \* the volatile counters and time stamps
  throttle_high_edges,
  throttle_low_edges,
  throttle_last_high,
  throttle_last_low,
  steering_interrupts,
  steering_high_edges,
  steering_low_edges,
  steering_last_high,
  steering_last_low,
  lastReport,            \* static lastReport of loop()
  report_now,            \* locals of loop(), live from the masked section to the report:
  t_ints,                \* now and the copies of the counters
  t_highs,
  t_lows,
  s_ints,
  s_highs,
  s_lows,
  handled,               \* runs of each handler since reset
  reported               \* runs of each handler the reports written so far account for

pinVars == <<throttle_pin, steering_pin>>
latchVars == <<throttle_flag, steering_flag>>
throttleVars == <<throttle_lastRise, throttle_highTime, throttle_period, throttle_newCycle,
                  throttle_lastRiseTime>>
steeringVars == <<steering_lastRise, steering_highTime, steering_period, steering_newCycle,
                  steering_riseTime>>
chanVars == <<pinVars, latchVars, throttleVars, steeringVars, signal, nEdges, rises>>
ctrlVars == <<autonomous_mode, target_steering, target_throttle>>
tickVars == <<steer_norm, steer_raw, steer_period_val>>
loopVars == <<lastSampleTime, currentTime, command, tickVars>>
debugVars == <<throttle_interrupts, throttle_high_edges, throttle_low_edges,
               throttle_last_high, throttle_last_low,
               steering_interrupts, steering_high_edges, steering_low_edges,
               steering_last_high, steering_last_low,
               lastReport, report_now, t_ints, t_highs, t_lows, s_ints, s_highs, s_lows,
               handled, reported>>
vars == <<pc, clock, chanVars, ctrlVars, loopVars, rxBuffer, out, pre, readyWritten,
          sinceManual, lastRx, edge, seen, debugVars>>

micros == U32(clock)
millis == U32(clock \div 1000)

\* The program that runs: the control firmware or the recorder firmware.
Recorder == pc \in {"recorder_setup", "recorder_loop"}
\* attachInterrupt() has not been called yet.
Detached == pc \in {"setup", "recorder_setup"}

\* One thing written by the firmware: a serial line or a pulse on an output pin.
SerialLine(text) == [kind |-> "serial", text |-> text, pin |-> 0, width |-> 0]
Pulse(pin, width) == [kind |-> "pulse", text |-> <<>>, pin |-> pin, width |-> width]

Snapshot == [mode |-> autonomous_mode, steering |-> target_steering,
             throttle |-> target_throttle, rx |-> rxBuffer]

CountReady(events) ==
  Cardinality({i \in 1..Len(events) : events[i] = SerialLine(S_READY)})

\* No handler ran in the step.
NoEdge == [chan |-> "none", level |-> LOW, now |-> 0, rise |-> 0, rises |-> 0, owed |-> <<>>]

\* ------------------------------------------------------------------
\* Calculation functions
\* ------------------------------------------------------------------
\* Mutant: the duty cycle as a fraction of 100 % instead of THROTTLE_MAX_DUTY.
calculateThrottleNormalized_percent(pulseWidth, period) ==
  IF period = 0 THEN 0
  ELSE constrain(Quotient(pulseWidth, period), 0, Scale)

\* normalized = (pulseWidth / period * 100 - THROTTLE_MIN_DUTY)
\*                / (THROTTLE_MAX_DUTY - THROTTLE_MIN_DUTY), clamped to [0, 1].
calculateThrottleNormalized(pulseWidth, period) ==
  IF period = 0 THEN 0
  ELSE constrain(Quotient(pulseWidth * 10, 7 * period), 0, Scale)

\* Mutant: the steering value returned without the clamp.
calculateSteeringNormalized_unclamped(pulseWidth, period) ==
  IF period = 0 THEN 0
  ELSE Quotient(pulseWidth * 1000 - 70 * period, 21 * period)

\* normalized = (pulseWidth / period * 100 - STEERING_NEUTRAL_DUTY)
\*                / ((STEERING_MAX_DUTY - STEERING_MIN_DUTY) / 2), clamped to [-1, 1].
calculateSteeringNormalized(pulseWidth, period) ==
  IF period = 0 THEN 0
  ELSE constrain(Quotient(pulseWidth * 1000 - 70 * period, 21 * period), -Scale, Scale)

\* Mutant: the recorder with the period check of the control firmware.
pwm_recorder_calculateThrottleNormalized_zeroOnly(pulseWidth, period) ==
  IF pulseWidth < 50 \/ period = 0 THEN 0
  ELSE constrain(Quotient(pulseWidth * 10, 7 * period), 0, Scale)

\* The recorder firmware: a pulse shorter than 50 us or a period shorter than
\* 500 us is an invalid signal; normalized = dutyCycle / THROTTLE_MAX_DUTY.
pwm_recorder_calculateThrottleNormalized(pulseWidth, period) ==
  IF pulseWidth < 50 \/ period < 500 THEN 0
  ELSE constrain(Quotient(pulseWidth * 10, 7 * period), 0, Scale)

\* The recorder firmware: normalized = (dutyCycle - STEERING_NEUTRAL_DUTY)
\*   / (STEERING_MAX_DUTY - STEERING_NEUTRAL_DUTY) * (2.0 / 2.2).
pwm_recorder_calculateSteeringNormalized(pulseWidth, period) ==
  IF pulseWidth < 50 \/ period < 10000 THEN 0
  ELSE constrain(MulDiv(Quotient(100 * pulseWidth - 7 * period, period), 50, 121),
                 -Scale, Scale)

\* enhanced_pwm_recorder.ino: the steering value from the pulse width alone,
\* normalized = (float)(pulseWidth - STEERING_NEUTRAL_US) / (float)STEERING_RANGE_US
\* with the subtraction done in unsigned long.
enhanced_calculateSteeringNormalized(pulseWidth) ==
  IF pulseWidth < 100 THEN 0
  ELSE constrain(Quotient(U32(pulseWidth - STEERING_NEUTRAL_US + WordModulus),
                          STEERING_RANGE_US),
                 -Scale, Scale)

\* enhanced_pwm_recorder.ino: a pulse or a period shorter than 100 us is an
\* invalid signal; normalized = dutyCycle / THROTTLE_MAX_DUTY.
enhanced_calculateThrottleNormalized(pulseWidth, period) ==
  IF pulseWidth < 100 \/ period < 100 THEN 0
  ELSE constrain(Quotient(pulseWidth * 10, 7 * period), 0, Scale)

\* ------------------------------------------------------------------
\* Communication
\* ------------------------------------------------------------------
sendDataPacket(timestamp, steer_n, throttle_n, steer_r, throttle_r, steer_p, throttle_p) ==
  SerialLine(S_DATA \o printNumber(timestamp) \o Comma \o printFloat4(steer_n) \o Comma
             \o printFloat4(throttle_n) \o Comma \o printNumber(steer_r) \o Comma
             \o printNumber(throttle_r) \o Comma \o printNumber(steer_p) \o Comma
             \o printNumber(throttle_p))

\* ------------------------------------------------------------------
\* Control output
\* ------------------------------------------------------------------
\* long map(long x, long in_min, long in_max, long out_min, long out_max)
map(x, in_min, in_max, out_min, out_max) ==
  TruncDiv((x - in_min) * (out_max - out_min), in_max - in_min) + out_min

\* Converting a NaN float to long is undefined in C: the int handed to
\* servo_write may be any value; these stand for the possible outcomes.
UndefinedPulse == {-32768, 0, 32767}

\* The float target * 1000 converted to the long parameter of map().
steering_pulse(target) ==
  IF target = NaN THEN UndefinedPulse
  ELSE {map(TruncDiv(target, Scale \div 1000), -1000, 1000, SERVO_MIN_PULSE, SERVO_MAX_PULSE)}

\* Mutant: the throttle output mapped from SERVO_MIN_PULSE, like the steering output.
throttle_pulse_fromMin(target) ==
  IF target = NaN THEN UndefinedPulse
  ELSE {map(TruncDiv(target, Scale \div 1000), 0, 1000, SERVO_MIN_PULSE, SERVO_MAX_PULSE)}

throttle_pulse(target) ==
  IF target = NaN THEN UndefinedPulse
  ELSE {map(TruncDiv(target, Scale \div 1000), 0, 1000, SERVO_NEUTRAL_PULSE, SERVO_MAX_PULSE)}

\* servo_write(pin, pulse_width): one pulse of that width on the pin.
servo_write(pin, pulse_width) == Pulse(pin, pulse_width)

\* Mutant: the throttle output is pulsed before the steering output.
updateControlOutputs_throttleFirst(steering, throttle) ==
  { <<servo_write(THROTTLE_OUTPUT_PIN, tp), servo_write(STEERING_OUTPUT_PIN, sp)>> :
      sp \in steering_pulse(steering), tp \in throttle_pulse(throttle) }

\* The pulse sequences updateControlOutputs() can emit for a target:
\* steering output first, then throttle output.
updateControlOutputs(steering, throttle) ==
  { <<servo_write(STEERING_OUTPUT_PIN, sp), servo_write(THROTTLE_OUTPUT_PIN, tp)>> :
      sp \in steering_pulse(steering), tp \in throttle_pulse(throttle) }

\* ------------------------------------------------------------------
\* Control command processing
\* ------------------------------------------------------------------
\* The result of processControlCommand: the new mode and target, whether
\* updateControlOutputs() was called, the serial lines written, and the
\* branch that acted.
Ignored(st) ==
  [mode |-> st.mode, steering |-> st.steering, throttle |-> st.throttle,
   update |-> FALSE, reply |-> <<>>, branch |-> "none"]

\* Mutant: an accepted CTRL line is not acknowledged.
CtrlCommand_silent(cmd, st) ==
  LET firstComma == indexOf(cmd, ",", 5)
      secondComma == indexOf(cmd, ",", firstComma + 1)
  IN  IF firstComma > 0 /\ secondComma > 0
      THEN [mode |-> TRUE,
            steering |-> constrain(toFloat(substring(cmd, 5, firstComma)), -Scale, Scale),
            throttle |-> constrain(toFloat(substring(cmd, firstComma + 1, secondComma)),
                                   0, Scale),
            update |-> FALSE, reply |-> <<>>, branch |-> "ctrl"]
      ELSE Ignored(st)

\* if (command.startsWith("CTRL,")) { ... }
CtrlCommand(cmd, st) ==
  LET firstComma == indexOf(cmd, ",", 5)
      secondComma == indexOf(cmd, ",", firstComma + 1)
  IN  IF firstComma > 0 /\ secondComma > 0
      THEN LET steering == toFloat(substring(cmd, 5, firstComma))
               throttle == toFloat(substring(cmd, firstComma + 1, secondComma))
               ts == constrain(steering, -Scale, Scale)
               tt == constrain(throttle, 0, Scale)
           IN  [mode |-> TRUE, steering |-> ts, throttle |-> tt, update |-> FALSE,
                reply |-> <<SerialLine(S_CTRL_ACK \o printFloat4(ts) \o Comma \o printFloat4(tt))>>,
                branch |-> "ctrl"]
      ELSE Ignored(st)

\* Mutant: MODE,MANUAL leaves the target as it is.
ModeCommand_keepsTarget(cmd, st) ==
  IF indexOfString(cmd, S_AUTO) > 0
  THEN [mode |-> TRUE, steering |-> st.steering, throttle |-> st.throttle,
        update |-> FALSE, reply |-> <<SerialLine(S_MODE_ACK \o S_AUTO)>>, branch |-> "auto"]
  ELSE IF indexOfString(cmd, S_MANUAL) > 0
  THEN [mode |-> FALSE, steering |-> st.steering, throttle |-> st.throttle,
        update |-> TRUE, reply |-> <<SerialLine(S_MODE_ACK \o S_MANUAL)>>, branch |-> "manual"]
  ELSE Ignored(st)

\* Mutant: MODE,AUTO resets the target to neutral as MODE,MANUAL does.
ModeCommand_autoResets(cmd, st) ==
  IF indexOfString(cmd, S_AUTO) > 0
  THEN [mode |-> TRUE, steering |-> 0, throttle |-> 0,
        update |-> FALSE, reply |-> <<SerialLine(S_MODE_ACK \o S_AUTO)>>, branch |-> "auto"]
  ELSE IF indexOfString(cmd, S_MANUAL) > 0
  THEN [mode |-> FALSE, steering |-> 0, throttle |-> 0,
        update |-> TRUE, reply |-> <<SerialLine(S_MODE_ACK \o S_MANUAL)>>, branch |-> "manual"]
  ELSE Ignored(st)

\* else if (command.startsWith("MODE,")) { ... }
ModeCommand(cmd, st) ==
  IF indexOfString(cmd, S_AUTO) > 0
  THEN [mode |-> TRUE, steering |-> st.steering, throttle |-> st.throttle,
        update |-> FALSE, reply |-> <<SerialLine(S_MODE_ACK \o S_AUTO)>>, branch |-> "auto"]
  ELSE IF indexOfString(cmd, S_MANUAL) > 0
  THEN [mode |-> FALSE, steering |-> 0, throttle |-> 0,
        update |-> TRUE, reply |-> <<SerialLine(S_MODE_ACK \o S_MANUAL)>>, branch |-> "manual"]
  ELSE Ignored(st)

\* Mutant: the STATUS reply prints the steering target in both number fields.
StatusCommand_steeringTwice(st) ==
  [mode |-> st.mode, steering |-> st.steering, throttle |-> st.throttle, update |-> FALSE,
   reply |-> <<SerialLine(S_STATUS \o Comma \o (IF st.mode THEN S_AUTO ELSE S_MANUAL) \o Comma
                          \o printFloat4(st.steering) \o Comma \o printFloat4(st.steering))>>,
   branch |-> "status"]

\* else if (command.startsWith("STATUS")) { ... }
StatusCommand(st) ==
  [mode |-> st.mode, steering |-> st.steering, throttle |-> st.throttle, update |-> FALSE,
   reply |-> <<SerialLine(S_STATUS \o Comma \o (IF st.mode THEN S_AUTO ELSE S_MANUAL) \o Comma
                          \o printFloat4(st.steering) \o Comma \o printFloat4(st.throttle))>>,
   branch |-> "status"]

\* processControlCommand after command.trim(): cmd is the trimmed line.
processControlCommand(cmd, st) ==
  IF startsWith(cmd, S_CTRL) THEN CtrlCommand(cmd, st)
  ELSE IF startsWith(cmd, S_MODE) THEN ModeCommand(cmd, st)
  ELSE IF startsWith(cmd, S_STATUS) THEN StatusCommand(st)
  ELSE Ignored(st)

\* ------------------------------------------------------------------
\* Initial state and steps
\* ------------------------------------------------------------------
\* What the handlers of a channel have left in the shared timing state: the
\* time stamp of the last rising edge, the high time, the period and the
\* new-cycle flag.  NoTiming is the state at reset.
Timing(rise, highTime, period, new) ==
  [rise |-> rise, highTime |-> highTime, period |-> period, new |-> new]
NoTiming == Timing(0, 0, 0, FALSE)

\* The state in which the main program is at position start, the timer reads
\* clk, the last sampling tick was at last (ms), ready lines were written,
\* the input pins have the given levels, the handlers have left the
\* measurements throttle and steering, and the transitions of schedule are
\* still to come; no command was received.
Started(start, clk, last, ready, tpin, spin, schedule, throttle, steering) ==
  /\ pc = start
  /\ clock = clk
  /\ throttle_pin = tpin
  /\ steering_pin = spin
  /\ throttle_flag = <<>>
  /\ steering_flag = <<>>
  /\ throttle_lastRise = (IF start \in {"loop", "setup"} THEN 0 ELSE throttle.rise)
  /\ throttle_highTime = throttle.highTime
  /\ throttle_period = throttle.period
  /\ throttle_newCycle = throttle.new
  /\ steering_lastRise = (IF start \in {"loop", "setup"} THEN 0 ELSE steering.rise)
  /\ steering_highTime = steering.highTime
  /\ steering_period = steering.period
  /\ steering_newCycle = steering.new
  /\ throttle_lastRiseTime = throttle.rise
  /\ steering_riseTime = steering.rise
  /\ autonomous_mode = FALSE
  /\ target_steering = 0
  /\ target_throttle = 0
  /\ lastSampleTime = last
  /\ currentTime = 0
  /\ command = NoCommand
  /\ steer_norm = 0
  /\ steer_raw = 0
  /\ steer_period_val = 0
  /\ rxBuffer = <<>>
  /\ signal = schedule
  /\ out = <<>>
  /\ pre = [mode |-> FALSE, steering |-> 0, throttle |-> 0, rx |-> <<>>]
  /\ readyWritten = ready
  /\ sinceManual = FALSE
  /\ lastRx = 0
  /\ nEdges = 0
  /\ rises = [throttle |-> 0, steering |-> 0]
  /\ edge = NoEdge
  /\ seen = [steering |-> [new |-> FALSE, highTime |-> 0, period |-> 0, norm |-> 0],
             throttle |-> [new |-> FALSE, highTime |-> 0, period |-> 0, norm |-> 0]]
  /\ throttle_interrupts = 0
  /\ throttle_high_edges = 0
  /\ throttle_low_edges = 0
  /\ throttle_last_high = 0
  /\ throttle_last_low = 0
  /\ steering_interrupts = 0
  /\ steering_high_edges = 0
  /\ steering_low_edges = 0
  /\ steering_last_high = 0
  /\ steering_last_low = 0
  /\ lastReport = 0
  /\ report_now = 0
  /\ t_ints = 0
  /\ t_highs = 0
  /\ t_lows = 0
  /\ s_ints = 0
  /\ s_highs = 0
  /\ s_lows = 0
  /\ handled = [throttle |-> 0, steering |-> 0]
  /\ reported = [throttle |-> 0, steering |-> 0]

\* The same at reset of the shared timing state: no edge has been seen.
Start(start, clk, last, ready, tpin, spin, schedule) ==
  Started(start, clk, last, ready, tpin, spin, schedule, NoTiming, NoTiming)

\* Reset of the control firmware with both input pins low.
Init == Start("setup", 0, 0, 0, LOW, LOW, <<>>)

\* What every step of the three sampling firmwares records about itself; the
\* variables of the debug reader are not theirs.
Wrote(events) ==
  /\ out' = events
  /\ pre' = Snapshot
  /\ readyWritten' = readyWritten + CountReady(events)
  /\ UNCHANGED debugVars

\* Mutant: setup() without the initialization message.
setup_silent ==
  /\ pc = "setup"
  /\ pc' = "loop"
  /\ Wrote(<<>>)
  /\ edge' = NoEdge
  /\ UNCHANGED <<clock, chanVars, ctrlVars, loopVars, rxBuffer, sinceManual, lastRx, seen>>

\* setup(): Serial.println("ARDUINO_READY")
setup ==
  /\ pc = "setup"
  /\ pc' = "loop"
  /\ Wrote(<<SerialLine(S_READY)>>)
  /\ edge' = NoEdge
  /\ UNCHANGED <<clock, chanVars, ctrlVars, loopVars, rxBuffer, sinceManual, lastRx, seen>>

\* Mutant: the sampling condition compared without the unsigned wrap.
Due_signed(now_ms) == now_ms - lastSampleTime >= SAMPLE_RATE_MS

\* The sampling condition of loop(): currentTime - lastSampleTime >= SAMPLE_RATE_MS.
Due(now_ms) == U32(now_ms - lastSampleTime + WordModulus) >= SAMPLE_RATE_MS

\* loop() up to the sampling condition, with rx the line read from the serial
\* receive buffer (NoCommand if Serial.available() is false) after
\* readStringUntil() has waited for wait microseconds: read the clock, read
\* and process the line, then either start the sampling tick or return.
loopWaiting(rx, wait) ==
  /\ pc = "loop"
  /\ LET r == IF rx = NoCommand THEN Ignored(Snapshot)
              ELSE processControlCommand(trim(rx), Snapshot)
     IN  /\ autonomous_mode' = r.mode
         /\ target_steering' = r.steering
         /\ target_throttle' = r.throttle
         /\ \E pulses \in (IF r.update THEN updateControlOutputs(r.steering, r.throttle)
                           ELSE {<<>>}) :
              Wrote(pulses \o r.reply)
         /\ sinceManual' = CASE r.branch = "manual" -> TRUE
                             [] r.branch = "ctrl" -> FALSE
                             [] OTHER -> sinceManual
  /\ command' = IF rx = NoCommand THEN NoCommand ELSE trim(rx)
  /\ lastRx' = IF rx = NoCommand THEN lastRx ELSE clock
  /\ currentTime' = millis
  /\ pc' = IF Due(millis) THEN "steering" ELSE "loop"
  /\ clock' = clock + wait
  /\ edge' = NoEdge
  /\ UNCHANGED <<chanVars, lastSampleTime, tickVars, seen>>

\* The same with the whole line in the receive buffer: no wait.
loop(rx) == loopWaiting(rx, 0)

\* loop() with the line rx arriving and being read in the same iteration.
LoopStart(rx) ==
  /\ loop(rx)
  /\ UNCHANGED rxBuffer

\* Mutant: the steering section without the mask, a rising edge of the
\* steering pin being handled between the read of highTime and the read of
\* period.
SampleSteering_unmasked ==
  /\ pc = "steering"
  /\ pc' = "throttle"
  /\ IF steering_newCycle
     THEN /\ steer_norm' = calculateSteeringNormalized(steering_highTime, steering_period)
          /\ steer_raw' = steering_highTime
          /\ steer_period_val' = U32(micros - steering_riseTime + WordModulus)
          /\ steering_newCycle' = FALSE
     ELSE UNCHANGED <<steer_norm, steer_raw, steer_period_val, steering_newCycle>>
  /\ seen' = [seen EXCEPT !.steering = [new |-> steering_newCycle,
                                        highTime |-> steering_highTime,
                                        period |-> steering_period,
                                        norm |-> steer_norm']]
  /\ command' = NoCommand
  /\ Wrote(<<>>)
  /\ edge' = NoEdge
  /\ UNCHANGED <<clock, pinVars, latchVars, throttleVars, steering_lastRise, steering_highTime,
                 steering_period, steering_riseTime, signal, nEdges, rises, ctrlVars,
                 lastSampleTime, currentTime, rxBuffer, sinceManual, lastRx>>

\* The first masked section of the sampling tick: the steering channel.
SampleSteering ==
  /\ pc = "steering"
  /\ pc' = "throttle"
  /\ IF steering_newCycle
     THEN /\ steer_norm' = calculateSteeringNormalized(steering_highTime, steering_period)
          /\ steer_raw' = steering_highTime
          /\ steer_period_val' = steering_period
          /\ steering_newCycle' = FALSE
     ELSE UNCHANGED <<steer_norm, steer_raw, steer_period_val, steering_newCycle>>
  /\ seen' = [seen EXCEPT !.steering = [new |-> steering_newCycle,
                                        highTime |-> steering_highTime,
                                        period |-> steering_period,
                                        norm |-> steer_norm']]
  /\ command' = NoCommand
  /\ Wrote(<<>>)
  /\ edge' = NoEdge
  /\ UNCHANGED <<clock, pinVars, latchVars, throttleVars, steering_lastRise, steering_highTime,
                 steering_period, steering_riseTime, signal, nEdges, rises, ctrlVars,
                 lastSampleTime, currentTime, rxBuffer, sinceManual, lastRx>>

\* The second masked section (the throttle channel) and sendDataPacket.
SampleAndSend ==
  /\ pc = "throttle"
  /\ throttle_newCycle' = FALSE
  /\ seen' = [seen EXCEPT !.throttle =
                [new |-> throttle_newCycle,
                 highTime |-> throttle_highTime,
                 period |-> throttle_period,
                 norm |-> IF throttle_newCycle
                          THEN calculateThrottleNormalized(throttle_highTime, throttle_period)
                          ELSE 0]]
  /\ steer_norm' = 0
  /\ steer_raw' = 0
  /\ steer_period_val' = 0
  /\ command' = NoCommand
  /\ edge' = NoEdge
  /\ UNCHANGED <<clock, pinVars, latchVars, throttle_lastRise, throttle_highTime,
                 throttle_period, throttle_lastRiseTime, steeringVars, signal, nEdges, rises,
                 ctrlVars, currentTime, rxBuffer, sinceManual, lastRx>>

\* The DATA line of the tick whose throttle section runs now.
DataPacket ==
  LET throttle_norm == IF throttle_newCycle
                       THEN calculateThrottleNormalized(throttle_highTime, throttle_period)
                       ELSE 0
      throttle_raw == IF throttle_newCycle THEN throttle_highTime ELSE 0
      throttle_period_val == IF throttle_newCycle THEN throttle_period ELSE 0
  IN  sendDataPacket(currentTime, steer_norm, throttle_norm, steer_raw,
                     throttle_raw, steer_period_val, throttle_period_val)

\* The second masked section (the throttle channel) and the rest of the tick:
\* sendDataPacket, updateControlOutputs if autonomous, lastSampleTime.
SampleThrottle ==
  /\ SampleAndSend
  /\ pc' = "loop"
  /\ \E pulses \in (IF autonomous_mode
                    THEN updateControlOutputs(target_steering, target_throttle)
                    ELSE {<<>>}) :
       Wrote(<<DataPacket>> \o pulses)
  /\ lastSampleTime' = currentTime

\* ------------------------------------------------------------------
\* Interrupt handlers
\* ------------------------------------------------------------------
\* handleThrottleInterrupt() of the control firmware, with level the value
\* digitalRead(THROTTLE_PIN) returns.
handleThrottleInterrupt(level) ==
  LET now == micros
  IN  /\ IF level = HIGH
         THEN /\ throttle_period' = IF throttle_lastRiseTime > 0
                                    THEN U32(now - throttle_lastRiseTime + WordModulus)
                                    ELSE throttle_period
              /\ throttle_lastRiseTime' = now
              /\ UNCHANGED <<throttle_highTime, throttle_newCycle>>
         ELSE /\ IF throttle_lastRiseTime > 0
                 THEN /\ throttle_highTime' = U32(now - throttle_lastRiseTime + WordModulus)
                      /\ throttle_newCycle' = TRUE
                 ELSE UNCHANGED <<throttle_highTime, throttle_newCycle>>
              /\ UNCHANGED <<throttle_period, throttle_lastRiseTime>>
      /\ UNCHANGED throttle_lastRise

\* Mutant: the steering handler flags a new cycle on the rising edge too.
handleSteeringInterrupt_flagOnRise(level) ==
  LET now == micros
  IN  /\ IF level = HIGH
         THEN /\ steering_period' = IF steering_riseTime > 0
                                    THEN U32(now - steering_riseTime + WordModulus)
                                    ELSE steering_period
              /\ steering_riseTime' = now
              /\ steering_newCycle' = TRUE
              /\ UNCHANGED steering_highTime
         ELSE /\ IF steering_riseTime > 0
                 THEN /\ steering_highTime' = U32(now - steering_riseTime + WordModulus)
                      /\ steering_newCycle' = TRUE
                 ELSE UNCHANGED <<steering_highTime, steering_newCycle>>
              /\ UNCHANGED <<steering_period, steering_riseTime>>
      /\ UNCHANGED steering_lastRise

\* handleSteeringInterrupt() of the control firmware.
handleSteeringInterrupt(level) ==
  LET now == micros
  IN  /\ IF level = HIGH
         THEN /\ steering_period' = IF steering_riseTime > 0
                                    THEN U32(now - steering_riseTime + WordModulus)
                                    ELSE steering_period
              /\ steering_riseTime' = now
              /\ UNCHANGED <<steering_highTime, steering_newCycle>>
         ELSE /\ IF steering_riseTime > 0
                 THEN /\ steering_highTime' = U32(now - steering_riseTime + WordModulus)
                      /\ steering_newCycle' = TRUE
                 ELSE UNCHANGED <<steering_highTime, steering_newCycle>>
              /\ UNCHANGED <<steering_period, steering_riseTime>>
      /\ UNCHANGED steering_lastRise

\* Mutant: the rising edge does not record its time in throttle_lastRise.
pwm_recorder_handleThrottleInterrupt_staleRise(level) ==
  LET now == micros
  IN  IF level = HIGH
      THEN /\ IF throttle_lastRiseTime > 0 /\ now > throttle_lastRiseTime
              THEN /\ throttle_period' = U32(now - throttle_lastRiseTime + WordModulus)
                   /\ throttle_newCycle' = TRUE
              ELSE UNCHANGED <<throttle_period, throttle_newCycle>>
           /\ throttle_lastRiseTime' = now
           /\ UNCHANGED <<throttle_lastRise, throttle_highTime>>
      ELSE /\ throttle_highTime' = IF throttle_lastRise > 0 /\ now > throttle_lastRise
                                   THEN U32(now - throttle_lastRise + WordModulus)
                                   ELSE throttle_highTime
           /\ UNCHANGED <<throttle_period, throttle_newCycle, throttle_lastRiseTime,
                          throttle_lastRise>>

\* handleThrottleInterrupt() of the recorder firmware.
pwm_recorder_handleThrottleInterrupt(level) ==
  LET now == micros
  IN  IF level = HIGH
      THEN /\ IF throttle_lastRiseTime > 0 /\ now > throttle_lastRiseTime
              THEN /\ throttle_period' = U32(now - throttle_lastRiseTime + WordModulus)
                   /\ throttle_newCycle' = TRUE
              ELSE UNCHANGED <<throttle_period, throttle_newCycle>>
           /\ throttle_lastRiseTime' = now
           /\ throttle_lastRise' = now
           /\ UNCHANGED throttle_highTime
      ELSE /\ throttle_highTime' = IF throttle_lastRise > 0 /\ now > throttle_lastRise
                                   THEN U32(now - throttle_lastRise + WordModulus)
                                   ELSE throttle_highTime
           /\ UNCHANGED <<throttle_period, throttle_newCycle, throttle_lastRiseTime,
                          throttle_lastRise>>

\* handleSteeringInterrupt() of the recorder firmware.
pwm_recorder_handleSteeringInterrupt(level) ==
  LET now == micros
  IN  IF level = HIGH
      THEN /\ IF steering_riseTime > 0
              THEN /\ steering_period' = U32(now - steering_riseTime + WordModulus)
                   /\ steering_newCycle' = TRUE
              ELSE UNCHANGED <<steering_period, steering_newCycle>>
           /\ steering_riseTime' = now
           /\ steering_lastRise' = now
           /\ UNCHANGED steering_highTime
      ELSE /\ steering_highTime' = U32(now - steering_lastRise + WordModulus)
           /\ UNCHANGED <<steering_period, steering_newCycle, steering_riseTime,
                          steering_lastRise>>

\* A run of the throttle handler of the firmware that is loaded, answering
\* the transitions owed; the pin reads level when the handler reads it.
ThrottleISR(level, owed) ==
  /\ IF Recorder THEN pwm_recorder_handleThrottleInterrupt(level)
                 ELSE handleThrottleInterrupt(level)
  /\ edge' = [chan |-> "throttle", level |-> level, now |-> micros,
              rise |-> throttle_lastRiseTime, rises |-> rises.throttle, owed |-> owed]
  /\ rises' = IF level = HIGH /\ rises.throttle < 2
              THEN [rises EXCEPT !.throttle = @ + 1] ELSE rises

\* A run of the steering handler of the firmware that is loaded.
SteeringISR(level, owed) ==
  /\ IF Recorder THEN pwm_recorder_handleSteeringInterrupt(level)
                 ELSE handleSteeringInterrupt(level)
  /\ edge' = [chan |-> "steering", level |-> level, now |-> micros,
              rise |-> steering_riseTime, rises |-> rises.steering, owed |-> owed]
  /\ rises' = IF level = HIGH /\ rises.steering < 2
              THEN [rises EXCEPT !.steering = @ + 1] ELSE rises

\* A transition of the throttle input pin, served by its handler at once.
ThrottleEdge ==
  /\ ~Detached
  /\ nEdges < MaxEdges
  /\ nEdges' = nEdges + 1
  /\ throttle_pin' = 1 - throttle_pin
  /\ ThrottleISR(1 - throttle_pin, <<1 - throttle_pin>>)
  /\ command' = NoCommand
  /\ Wrote(<<>>)
  /\ UNCHANGED <<pc, clock, steering_pin, latchVars, steeringVars, signal, ctrlVars,
                 lastSampleTime, currentTime, tickVars, rxBuffer, sinceManual, lastRx, seen>>

\* A transition of the steering input pin, served by its handler at once.
SteeringEdge ==
  /\ ~Detached
  /\ nEdges < MaxEdges
  /\ nEdges' = nEdges + 1
  /\ steering_pin' = 1 - steering_pin
  /\ SteeringISR(1 - steering_pin, <<1 - steering_pin>>)
  /\ command' = NoCommand
  /\ Wrote(<<>>)
  /\ UNCHANGED <<pc, clock, throttle_pin, latchVars, throttleVars, signal, ctrlVars,
                 lastSampleTime, currentTime, tickVars, rxBuffer, sinceManual, lastRx, seen>>

\* ------------------------------------------------------------------
\* The hardware timer
\* ------------------------------------------------------------------
\* The last multiple of the sampling period before the microsecond counter
\* wraps, and the start of the stretch of time a run explores.
WrapStart == (WordModulus \div (SAMPLE_RATE_MS * 1000)) * SAMPLE_RATE_MS * 1000
Epoch == IF clock >= WrapStart THEN WrapStart ELSE 0

\* Time passes: the hardware timer advances by dt microseconds.
Elapse(dt) ==
  /\ clock + dt <= Epoch + MaxPeriods * SAMPLE_RATE_MS * 1000
  /\ clock' = clock + dt
  /\ command' = NoCommand
  /\ Wrote(<<>>)
  /\ edge' = NoEdge
  /\ UNCHANGED <<pc, chanVars, ctrlVars, lastSampleTime, currentTime, tickVars, rxBuffer,
                 sinceManual, lastRx, seen>>

\* Advances of the timer between steps: one sampling period.
Delays == {SAMPLE_RATE_MS * 1000}

Next ==
  \/ setup
  \/ \E rx \in InboundLines \cup {NoCommand} : LoopStart(rx)
  \/ SampleSteering
  \/ SampleThrottle
  \/ ThrottleEdge
  \/ SteeringEdge
  \/ \E dt \in Delays : Elapse(dt)

Spec == Init /\ [][Next]_vars

\* ------------------------------------------------------------------
\* The recorder firmware (pwm_recorder.ino)
\* ------------------------------------------------------------------
\* setup(): Serial.println("ARDUINO_READY")
pwm_recorder_setup ==
  /\ pc = "recorder_setup"
  /\ pc' = "recorder_loop"
  /\ Wrote(<<SerialLine(S_READY)>>)
  /\ edge' = NoEdge
  /\ UNCHANGED <<clock, chanVars, ctrlVars, loopVars, rxBuffer, sinceManual, lastRx, seen>>

\* loop(): when the sampling period has passed, copy the four shared values
\* in one masked section, normalize them and send the DATA line.
pwm_recorder_loop ==
  /\ pc = "recorder_loop"
  /\ Due(millis)
  /\ lastSampleTime' = millis
  /\ seen' = [steering |-> [new |-> steering_newCycle, highTime |-> steering_highTime,
                            period |-> steering_period,
                            norm |-> pwm_recorder_calculateSteeringNormalized(
                                       steering_highTime, steering_period)],
              throttle |-> [new |-> throttle_newCycle, highTime |-> throttle_highTime,
                            period |-> throttle_period,
                            norm |-> pwm_recorder_calculateThrottleNormalized(
                                       throttle_highTime, throttle_period)]]
  /\ LET throttle_pulse_ == throttle_highTime
         throttle_per == throttle_period
         steer_pulse == steering_highTime
         steer_per == steering_period
         throttle_normalized == pwm_recorder_calculateThrottleNormalized(throttle_pulse_, throttle_per)
         steer_normalized == pwm_recorder_calculateSteeringNormalized(steer_pulse, steer_per)
     IN  Wrote(<<sendDataPacket(millis, steer_normalized, throttle_normalized,
                                steer_pulse, throttle_pulse_, steer_per, throttle_per)>>)
  /\ command' = NoCommand
  /\ edge' = NoEdge
  /\ UNCHANGED <<pc, clock, chanVars, ctrlVars, currentTime, tickVars, rxBuffer,
                 sinceManual, lastRx>>

\* ------------------------------------------------------------------
\* enhanced_pwm_recorder.ino
\* ------------------------------------------------------------------
\* (Its steering_pulseWidth and throttle_pulseWidth are the variables
\* steering_highTime and throttle_highTime of the model.)
Enhanced == pc = "enhanced_loop"

\* The local declared as  unsigned long throttle_period = throttle_period;
\* is initialized with itself, not with the shared variable it hides: its
\* value is indeterminate.  These stand for the values it may have, the
\* value of the shared variable among them.
Indeterminate == {0, 1000, WordModulus - 1, throttle_period}

\* loop(): when the sampling period has passed, copy the shared values in
\* one masked section, normalize them and send the DATA line.
enhanced_pwm_recorder_loop ==
  /\ pc = "enhanced_loop"
  /\ Due(millis)
  /\ lastSampleTime' = millis
  /\ \E throttle_per \in Indeterminate :
       LET steer_pulse == steering_highTime
           steer_per == steering_period
           throttle_pulse_ == throttle_highTime
           steer_normalized == enhanced_calculateSteeringNormalized(steer_pulse)
           throttle_normalized == enhanced_calculateThrottleNormalized(throttle_pulse_,
                                                                       throttle_per)
       IN  /\ seen' = [steering |-> [new |-> steering_newCycle,
                                     highTime |-> steering_highTime,
                                     period |-> steering_period,
                                     norm |-> steer_normalized],
                       throttle |-> [new |-> throttle_newCycle,
                                     highTime |-> throttle_highTime,
                                     period |-> throttle_period,
                                     norm |-> throttle_normalized]]
           /\ Wrote(<<sendDataPacket(millis, steer_normalized, throttle_normalized,
                                     steer_pulse, throttle_pulse_, steer_per, throttle_per)>>)
  /\ command' = NoCommand
  /\ edge' = NoEdge
  /\ UNCHANGED <<pc, clock, chanVars, ctrlVars, currentTime, tickVars, rxBuffer,
                 sinceManual, lastRx>>

\* ------------------------------------------------------------------
\* Input signals
\* ------------------------------------------------------------------
Transition(at, chan) == [at |-> at, chan |-> chan]

\* Input signals explored: the levels of the two pins at reset and the
\* transitions that follow (microseconds after the start of the run).
\*  1. a steering servo signal whose pulse width changes;
\*  2. a throttle signal whose frequency drops while a pulse is high;
\*  3. both pins high at reset, then a steering signal of 50 Hz;
\*  4. throttle and steering pulses interleaved;
\*  5. a steering signal left of neutral;
\*  6. throttle pulses of a few microseconds, then a long one;
\*  7. a steering signal whose first rising edge comes as far after the start
\*     of the run as the wrap of the microsecond counter is after WrapStart.
Waveforms ==
  { [throttle |-> LOW, steering |-> LOW,
     edges |-> <<Transition(1000, "steering"), Transition(3000, "steering"),
                 Transition(34000, "steering"), Transition(36500, "steering"),
                 Transition(67000, "steering"), Transition(69000, "steering")>>],
    [throttle |-> LOW, steering |-> LOW,
     edges |-> <<Transition(1000, "throttle"), Transition(2000, "throttle"),
                 Transition(3000, "throttle"), Transition(33000, "throttle"),
                 Transition(36000, "throttle"), Transition(37000, "throttle")>>],
    [throttle |-> HIGH, steering |-> HIGH,
     edges |-> <<Transition(1000, "steering"), Transition(1500, "throttle"),
                 Transition(21000, "steering"), Transition(22500, "steering"),
                 Transition(41000, "steering"), Transition(42600, "steering")>>],
    [throttle |-> LOW, steering |-> LOW,
     edges |-> <<Transition(500, "throttle"), Transition(800, "throttle"),
                 Transition(1000, "steering"), Transition(1500, "throttle"),
                 Transition(2400, "steering"), Transition(21000, "steering")>>],
    [throttle |-> LOW, steering |-> LOW,
     edges |-> <<Transition(1000, "steering"), Transition(2200, "steering"),
                 Transition(21000, "steering"), Transition(21900, "steering"),
                 Transition(41000, "steering"), Transition(42000, "steering")>>],
    [throttle |-> LOW, steering |-> LOW,
     edges |-> <<Transition(1000, "throttle"), Transition(1001, "throttle"),
                 Transition(1002, "throttle"), Transition(32000, "throttle"),
                 Transition(32001, "throttle"), Transition(40000, "throttle")>>],
    [throttle |-> LOW, steering |-> LOW,
     edges |-> <<Transition(WordModulus - WrapStart, "steering"),
                 Transition(WordModulus - WrapStart + 1500, "steering"),
                 Transition(WordModulus - WrapStart + 20000, "steering"),
                 Transition(WordModulus - WrapStart + 21500, "steering")>>] }

\* The first MaxSignalEdges transitions of a waveform, t0 microseconds later.
Schedule(w, t0) ==
  [i \in 1..(IF Len(w.edges) < MaxSignalEdges THEN Len(w.edges) ELSE MaxSignalEdges) |->
     Transition(w.edges[i].at + t0, w.edges[i].chan)]

\* Mutant: the throttle handler also flags a new cycle of the steering channel.
SignalEdge_sharedFlag ==
  /\ ~Detached
  /\ signal # <<>>
  /\ Head(signal).at = clock
  /\ signal' = Tail(signal)
  /\ nEdges' = nEdges + 1
  /\ IF Head(signal).chan = "throttle"
     THEN /\ throttle_pin' = 1 - throttle_pin
          /\ ThrottleISR(1 - throttle_pin, <<1 - throttle_pin>>)
          /\ steering_newCycle' = TRUE
          /\ UNCHANGED <<steering_pin, steering_lastRise, steering_highTime,
                         steering_period, steering_riseTime>>
     ELSE /\ steering_pin' = 1 - steering_pin
          /\ SteeringISR(1 - steering_pin, <<1 - steering_pin>>)
          /\ UNCHANGED <<throttle_pin, throttleVars>>
  /\ command' = NoCommand
  /\ Wrote(<<>>)
  /\ UNCHANGED <<pc, clock, latchVars, ctrlVars, lastSampleTime, currentTime, tickVars,
                 rxBuffer, sinceManual, lastRx, seen>>

\* The next scheduled transition of an input pin, served by its handler at once.
SignalEdge ==
  /\ ~Detached
  /\ signal # <<>>
  /\ Head(signal).at = clock
  /\ signal' = Tail(signal)
  /\ nEdges' = nEdges + 1
  /\ IF Head(signal).chan = "throttle"
     THEN /\ throttle_pin' = 1 - throttle_pin
          /\ ThrottleISR(1 - throttle_pin, <<1 - throttle_pin>>)
          /\ UNCHANGED <<steering_pin, steeringVars>>
     ELSE /\ steering_pin' = 1 - steering_pin
          /\ SteeringISR(1 - steering_pin, <<1 - steering_pin>>)
          /\ UNCHANGED <<throttle_pin, throttleVars>>
  /\ command' = NoCommand
  /\ Wrote(<<>>)
  /\ UNCHANGED <<pc, clock, latchVars, ctrlVars, lastSampleTime, currentTime, tickVars,
                 rxBuffer, sinceManual, lastRx, seen>>

\* Advances of the timer that lead to the next event: the next scheduled
\* transition, or the instant the next sampling tick is due.
SignalDelays ==
  LET nextDue == (lastSampleTime + SAMPLE_RATE_MS) * 1000
      candidates == (IF signal # <<>> THEN {Head(signal).at - clock} ELSE {})
                      \cup {nextDue - clock}
  IN  {dt \in candidates : dt > 0 /\ (signal # <<>> => clock + dt <= Head(signal).at)}

NextSignal ==
  \/ setup
  \/ LoopStart(NoCommand)
  \/ SampleSteering
  \/ SampleThrottle
  \/ pwm_recorder_setup
  \/ pwm_recorder_loop
  \/ SignalEdge
  \/ \E dt \in SignalDelays : Elapse(dt)

\* Reset of either firmware with one of the input signals ahead.
InitSignal ==
  \E w \in Waveforms, start \in {"setup", "recorder_setup"} :
    Start(start, 0, 0, 0, w.throttle, w.steering, Schedule(w, 0))

SpecSignal == InitSignal /\ [][NextSignal]_vars

\* The same input signals while the host sends commands to the control
\* firmware: a target and the switch to autonomous mode.
FrameLines ==
  { S_CTRL \o <<"0", ".", "5", ",", "0", ".", "3", ",">>,
    S_MODE \o S_AUTO }

NextFrame ==
  \/ setup
  \/ \E rx \in FrameLines \cup {NoCommand} : LoopStart(rx)
  \/ SampleSteering
  \/ SampleThrottle
  \/ pwm_recorder_setup
  \/ pwm_recorder_loop
  \/ SignalEdge
  \/ \E dt \in SignalDelays : Elapse(dt)

SpecFrame == InitSignal /\ [][NextFrame]_vars

\* Either firmware after it has run without input, sampling every period,
\* until one sampling period before WrapStart, the timer then reaching
\* WrapStart: the microsecond counter wraps within the next period.
InitWrap ==
  \E w \in Waveforms, start \in {"loop", "recorder_loop"} :
    Start(start, WrapStart, (WrapStart \div 1000) - SAMPLE_RATE_MS, 1,
          w.throttle, w.steering, Schedule(w, WrapStart))

\* The steps of a firmware that is past its setup().
NextWrap ==
  \/ LoopStart(NoCommand)
  \/ SampleSteering
  \/ SampleThrottle
  \/ pwm_recorder_loop
  \/ SignalEdge
  \/ \E dt \in SignalDelays : Elapse(dt)

SpecWrap == InitWrap /\ [][NextWrap]_vars

\* ------------------------------------------------------------------
\* The wrap of the millisecond counter
\* ------------------------------------------------------------------
\* The timer value (us) at which millis() wraps to 0.
MillisWrap == WordModulus * 1000

\* Either firmware right after a sampling tick that took place lead ms
\* before millis() wraps.
InitMillis ==
  \E start \in {"loop", "recorder_loop"}, lead \in {1, 20, 32, 33, 40} :
    Start(start, MillisWrap - lead * 1000, WordModulus - lead, 1, LOW, LOW, <<>>)

\* Time passes around the wrap of millis().
ElapseMillis(dt) ==
  /\ clock + dt <= MillisWrap + MaxPeriods * SAMPLE_RATE_MS * 1000
  /\ clock' = clock + dt
  /\ command' = NoCommand
  /\ Wrote(<<>>)
  /\ edge' = NoEdge
  /\ UNCHANGED <<pc, chanVars, ctrlVars, lastSampleTime, currentTime, tickVars, rxBuffer,
                 sinceManual, lastRx, seen>>

NextMillis ==
  \/ LoopStart(NoCommand)
  \/ SampleSteering
  \/ SampleThrottle
  \/ pwm_recorder_loop
  \/ \E dt \in {1000, 7000, SAMPLE_RATE_MS * 1000} : ElapseMillis(dt)

SpecMillis == InitMillis /\ [][NextMillis]_vars

\* ------------------------------------------------------------------
\* Steady input signals
\* ------------------------------------------------------------------
\* The steady signals of the two channels: a drive signal of 900 Hz at 50 %
\* duty on the throttle pin and a servo signal of 50 Hz at 7 % duty on the
\* steering pin (high time and period in microseconds).
SteadyHigh(chan) == IF chan = "throttle" THEN 556 ELSE 1400
SteadyPeriod(chan) == IF chan = "throttle" THEN 1111 ELSE 20000

\* The time of the n-th transition of a steady signal on chan whose first
\* transition is at time at, the pin having the given level before it.
SteadyTime(chan, level, at, n) ==
  LET cycles == (n - 1) \div 2
      part == IF level = LOW THEN SteadyHigh(chan)
              ELSE SteadyPeriod(chan) - SteadyHigh(chan)
  IN  at + cycles * SteadyPeriod(chan) + (IF n % 2 = 0 THEN part ELSE 0)

\* The first MaxSignalEdges transitions of each of the two steady signals,
\* in the order of their times.
SteadySchedule(throttle, steering) ==
  LET of(chan, g) == [n \in 1..MaxSignalEdges |->
                        Transition(SteadyTime(chan, g.level, g.at, n), chan)]
  IN  SortSeq(of("throttle", throttle) \o of("steering", steering),
              LAMBDA a, b : a.at < b.at)

\* The phases explored: the level of each pin at reset and the time of its
\* first transition.
SteadyPhases ==
  [throttle : [level : {LOW, HIGH}, at : {500, 31500}],
   steering : [level : {LOW, HIGH}, at : {1000, 12000, 14000}]]

\* Reset of the recorder firmware with the two steady signals ahead.
InitSteady ==
  \E g \in SteadyPhases :
    Start("recorder_setup", 0, 0, 0, g.throttle.level, g.steering.level,
          SteadySchedule(g.throttle, g.steering))

NextSteady ==
  \/ pwm_recorder_setup
  \/ pwm_recorder_loop
  \/ SignalEdge
  \/ \E dt \in SignalDelays : Elapse(dt)

SpecSteady == InitSteady /\ [][NextSteady]_vars

\* ------------------------------------------------------------------
\* Measurements handed to the sampling tick
\* ------------------------------------------------------------------
Sample(highTime, period) == [highTime |-> highTime, period |-> period]

\* Pairs of high time and period (microseconds) the handlers may have left
\* when a sampling tick begins: a servo signal of 50 Hz from 4 % to 10 % duty,
\* a drive signal of 900 Hz and 1 kHz from 5 % to 100 % duty, pulse widths
\* around the calibrated 1491 us, and pairs at the floors of validity.
Samples ==
  { Sample(0, 0), Sample(500, 0), Sample(49, 1000), Sample(50, 1000),
    Sample(100, 1000), Sample(350, 1000), Sample(700, 1000), Sample(701, 1000),
    Sample(800, 1000), Sample(1000, 1000), Sample(300, 499), Sample(300, 500),
    Sample(556, 1111), Sample(778, 1111),
    Sample(49, 20000), Sample(800, 20000), Sample(900, 20000), Sample(1000, 20000),
    Sample(1200, 20000), Sample(1400, 20000), Sample(1600, 20000), Sample(1840, 20000),
    Sample(2000, 20000), Sample(700, 9999), Sample(700, 10000),
    Sample(99, 21292), Sample(100, 21292), Sample(1041, 21292), Sample(1266, 21292),
    Sample(1490, 21292), Sample(1491, 21292), Sample(1716, 21292), Sample(1941, 21292) }

\* One of the firmwares when a sampling tick is due, the last falling edge of
\* both channels just handled, both channels holding the same measurement.
InitSample ==
  \E m \in Samples, start \in {"loop", "recorder_loop", "enhanced_loop"} :
    LET now == SAMPLE_RATE_MS * 1000
        left == Timing(now - m.highTime, m.highTime, m.period, TRUE)
    IN  Started(start, now, 0, 1, LOW, LOW, <<>>, left, left)

NextSample ==
  \/ LoopStart(NoCommand)
  \/ SampleSteering
  \/ SampleThrottle
  \/ pwm_recorder_loop
  \/ enhanced_pwm_recorder_loop

SpecSample == InitSample /\ [][NextSample]_vars

\* ------------------------------------------------------------------
\* The debug PWM reader
\* ------------------------------------------------------------------
\* throttleISR(), with level the value digitalRead(THROTTLE_PIN) returns.
throttleISR(level) ==
  /\ throttle_interrupts' = U32(throttle_interrupts + 1)
  /\ IF level = HIGH
     THEN /\ throttle_high_edges' = U32(throttle_high_edges + 1)
          /\ throttle_last_high' = micros
          /\ UNCHANGED <<throttle_low_edges, throttle_last_low>>
     ELSE /\ throttle_low_edges' = U32(throttle_low_edges + 1)
          /\ throttle_last_low' = micros
          /\ UNCHANGED <<throttle_high_edges, throttle_last_high>>

\* steeringISR().
steeringISR(level) ==
  /\ steering_interrupts' = U32(steering_interrupts + 1)
  /\ IF level = HIGH
     THEN /\ steering_high_edges' = U32(steering_high_edges + 1)
          /\ steering_last_high' = micros
          /\ UNCHANGED <<steering_low_edges, steering_last_low>>
     ELSE /\ steering_low_edges' = U32(steering_low_edges + 1)
          /\ steering_last_low' = micros
          /\ UNCHANGED <<steering_high_edges, steering_last_high>>

\* A transition of an input pin, served by its handler at once (the masked
\* section of loop() is one step, so a transition during it is served after).
DebugEdge ==
  /\ pc \in {"debug_loop", "debug_report"}
  /\ nEdges < MaxSignalEdges
  /\ nEdges' = nEdges + 1
  /\ \/ /\ throttle_pin' = 1 - throttle_pin
        /\ throttleISR(1 - throttle_pin)
        /\ handled' = [handled EXCEPT !.throttle = @ + 1]
        /\ edge' = [chan |-> "throttle", level |-> 1 - throttle_pin, now |-> micros,
                    rise |-> throttle_last_high, rises |-> 0, owed |-> <<1 - throttle_pin>>]
        /\ UNCHANGED <<steering_pin, steering_interrupts, steering_high_edges,
                       steering_low_edges, steering_last_high, steering_last_low>>
     \/ /\ steering_pin' = 1 - steering_pin
        /\ steeringISR(1 - steering_pin)
        /\ handled' = [handled EXCEPT !.steering = @ + 1]
        /\ edge' = [chan |-> "steering", level |-> 1 - steering_pin, now |-> micros,
                    rise |-> steering_last_high, rises |-> 0, owed |-> <<1 - steering_pin>>]
        /\ UNCHANGED <<throttle_pin, throttle_interrupts, throttle_high_edges,
                       throttle_low_edges, throttle_last_high, throttle_last_low>>
  /\ out' = <<>>
  /\ pre' = Snapshot
  /\ UNCHANGED <<pc, clock, latchVars, throttleVars, steeringVars, signal, rises, ctrlVars,
                 loopVars, rxBuffer, readyWritten, sinceManual, lastRx, seen,
                 lastReport, report_now, t_ints, t_highs, t_lows, s_ints, s_highs, s_lows,
                 reported>>

\* Mutant: the masked section does not reset throttle_interrupts.
debug_loop_keepsCount ==
  /\ pc = "debug_loop"
  /\ U32(millis - lastReport + WordModulus) >= 1000
  /\ pc' = "debug_report"
  /\ lastReport' = millis
  /\ report_now' = millis
  /\ t_ints' = throttle_interrupts
  /\ t_highs' = throttle_high_edges
  /\ t_lows' = throttle_low_edges
  /\ s_ints' = steering_interrupts
  /\ s_highs' = steering_high_edges
  /\ s_lows' = steering_low_edges
  /\ throttle_high_edges' = 0
  /\ throttle_low_edges' = 0
  /\ steering_interrupts' = 0
  /\ steering_high_edges' = 0
  /\ steering_low_edges' = 0
  /\ out' = <<>>
  /\ pre' = Snapshot
  /\ edge' = NoEdge
  /\ UNCHANGED <<clock, chanVars, ctrlVars, loopVars, rxBuffer, readyWritten, sinceManual,
                 lastRx, seen, throttle_interrupts, throttle_last_high, throttle_last_low,
                 steering_last_high, steering_last_low, handled, reported>>

\* loop() when a second has passed since the last report, up to interrupts():
\* the six counters are copied and reset in one masked section.
debug_loop ==
  /\ pc = "debug_loop"
  /\ U32(millis - lastReport + WordModulus) >= 1000
  /\ pc' = "debug_report"
  /\ lastReport' = millis
  /\ report_now' = millis
  /\ t_ints' = throttle_interrupts
  /\ t_highs' = throttle_high_edges
  /\ t_lows' = throttle_low_edges
  /\ s_ints' = steering_interrupts
  /\ s_highs' = steering_high_edges
  /\ s_lows' = steering_low_edges
  /\ throttle_interrupts' = 0
  /\ throttle_high_edges' = 0
  /\ throttle_low_edges' = 0
  /\ steering_interrupts' = 0
  /\ steering_high_edges' = 0
  /\ steering_low_edges' = 0
  /\ out' = <<>>
  /\ pre' = Snapshot
  /\ edge' = NoEdge
  /\ UNCHANGED <<clock, chanVars, ctrlVars, loopVars, rxBuffer, readyWritten, sinceManual,
                 lastRx, seen, throttle_last_high, throttle_last_low,
                 steering_last_high, steering_last_low, handled, reported>>

\* The rest of loop(): the report line and the line with the pin levels.
debug_report ==
  /\ pc = "debug_report"
  /\ pc' = "debug_loop"
  /\ out' = <<SerialLine(printNumber(report_now) \o Comma \o printNumber(t_ints) \o Comma
                           \o printNumber(t_highs) \o Comma \o printNumber(t_lows) \o Comma
                           \o printNumber(s_ints) \o Comma \o printNumber(s_highs) \o Comma
                           \o printNumber(s_lows)),
              SerialLine(<<"P", "I", "N", "_", "S", "T", "A", "T", "E", "S", ":", " ",
                           "T", "h", "r", "o", "t", "t", "l", "e", "=">>
                           \o printNumber(throttle_pin)
                           \o <<",", " ", "S", "t", "e", "e", "r", "i", "n", "g", "=">>
                           \o printNumber(steering_pin))>>
  /\ reported' = [throttle |-> reported.throttle + t_ints,
                  steering |-> reported.steering + s_ints]
  /\ pre' = Snapshot
  /\ edge' = NoEdge
  /\ UNCHANGED <<clock, chanVars, ctrlVars, loopVars, rxBuffer, readyWritten, sinceManual,
                 lastRx, seen, throttle_interrupts, throttle_high_edges, throttle_low_edges,
                 throttle_last_high, throttle_last_low,
                 steering_interrupts, steering_high_edges, steering_low_edges,
                 steering_last_high, steering_last_low,
                 lastReport, report_now, t_ints, t_highs, t_lows, s_ints, s_highs, s_lows,
                 handled>>

\* Time passes: one report period.
ElapseDebug ==
  /\ pc = "debug_loop"
  /\ clock + 1000000 <= MaxPeriods * 1000000
  /\ clock' = clock + 1000000
  /\ out' = <<>>
  /\ pre' = Snapshot
  /\ edge' = NoEdge
  /\ UNCHANGED <<pc, chanVars, ctrlVars, loopVars, rxBuffer, readyWritten, sinceManual,
                 lastRx, seen, debugVars>>

NextDebug ==
  \/ DebugEdge
  \/ debug_loop
  \/ debug_report
  \/ ElapseDebug

\* The debug reader after its setup(), with the pins at any levels.
SpecDebug ==
  /\ \E tpin \in {LOW, HIGH}, spin \in {LOW, HIGH} :
        Start("debug_loop", 0, 0, 0, tpin, spin, <<>>)
  /\ [][NextDebug]_vars

\* ------------------------------------------------------------------
\* Interrupt requests
\* ------------------------------------------------------------------
\* The handlers cannot run: the main program is in a masked section of the
\* sampling tick.  (Between the two sections interrupts are enabled for an
\* instant, so a handler may or may not be served at position throttle.)
Masked == pc = "steering"

\* The throttle pin changes level and raises the interrupt request of the
\* throttle channel.  A further transition while the request stands is
\* explored only where the request cannot be served at once: during the
\* masked sections of the sampling tick.
ThrottlePinChange ==
  /\ ~Detached
  /\ nEdges < MaxSignalEdges
  /\ throttle_flag # <<>> => pc \in {"steering", "throttle"}
  /\ nEdges' = nEdges + 1
  /\ throttle_pin' = 1 - throttle_pin
  /\ throttle_flag' = Append(throttle_flag, 1 - throttle_pin)
  /\ command' = NoCommand
  /\ Wrote(<<>>)
  /\ edge' = NoEdge
  /\ UNCHANGED <<pc, clock, steering_pin, steering_flag, throttleVars, steeringVars, signal,
                 rises, ctrlVars, lastSampleTime, currentTime, tickVars, rxBuffer,
                 sinceManual, lastRx, seen>>

\* The same for the steering pin.
SteeringPinChange ==
  /\ ~Detached
  /\ nEdges < MaxSignalEdges
  /\ steering_flag # <<>> => pc \in {"steering", "throttle"}
  /\ nEdges' = nEdges + 1
  /\ steering_pin' = 1 - steering_pin
  /\ steering_flag' = Append(steering_flag, 1 - steering_pin)
  /\ command' = NoCommand
  /\ Wrote(<<>>)
  /\ edge' = NoEdge
  /\ UNCHANGED <<pc, clock, throttle_pin, throttle_flag, throttleVars, steeringVars, signal,
                 rises, ctrlVars, lastSampleTime, currentTime, tickVars, rxBuffer,
                 sinceManual, lastRx, seen>>

\* The standing request of the throttle channel is served: the request bit is
\* cleared and the handler runs once, reading the level the pin has now.
ThrottleRequestServed ==
  /\ throttle_flag # <<>>
  /\ ~Masked
  /\ throttle_flag' = <<>>
  /\ ThrottleISR(throttle_pin, throttle_flag)
  /\ command' = NoCommand
  /\ Wrote(<<>>)
  /\ UNCHANGED <<pc, clock, pinVars, steering_flag, steeringVars, signal, nEdges, ctrlVars,
                 lastSampleTime, currentTime, tickVars, rxBuffer, sinceManual, lastRx, seen>>

\* The standing request of the steering channel is served.
SteeringRequestServed ==
  /\ steering_flag # <<>>
  /\ ~Masked
  /\ steering_flag' = <<>>
  /\ SteeringISR(steering_pin, steering_flag)
  /\ command' = NoCommand
  /\ Wrote(<<>>)
  /\ UNCHANGED <<pc, clock, pinVars, throttle_flag, throttleVars, signal, nEdges, ctrlVars,
                 lastSampleTime, currentTime, tickVars, rxBuffer, sinceManual, lastRx, seen>>

\* loop() starts an iteration; with interrupts enabled every standing request
\* has been served before.
LoopUnmasked ==
  /\ throttle_flag = <<>>
  /\ steering_flag = <<>>
  /\ LoopStart(NoCommand)

NextLatch ==
  \/ setup
  \/ LoopUnmasked
  \/ SampleSteering
  \/ SampleThrottle
  \/ ThrottlePinChange
  \/ SteeringPinChange
  \/ ThrottleRequestServed
  \/ SteeringRequestServed
  \/ \E dt \in Delays : Elapse(dt)

SpecLatch == Init /\ [][NextLatch]_vars

\* ------------------------------------------------------------------
\* The serial receive buffer and the output pulses in time
\* ------------------------------------------------------------------
\* Lines the host sends in the runs that follow the receive buffer.
BufferedLines ==
  { S_CTRL \o <<"0", ".", "5", ",", "0", ".", "3", ",">>,
    S_MODE \o S_AUTO,
    S_MODE \o S_MANUAL,
    S_STATUS }

\* A line arrives and is stored at the end of the serial receive buffer.
Receive(line) ==
  /\ ~Detached
  /\ Len(rxBuffer) < MaxBuffered
  /\ rxBuffer' = Append(rxBuffer, line)
  /\ command' = NoCommand
  /\ Wrote(<<>>)
  /\ edge' = NoEdge
  /\ UNCHANGED <<pc, clock, chanVars, ctrlVars, lastSampleTime, currentTime, tickVars,
                 sinceManual, lastRx, seen>>

\* A partial line in the receive buffer: bytes with no line terminator after
\* them, and none to follow.
Unterminated(text) == <<"<unterminated>">> \o text
IsUnterminated(line) == line # <<>> /\ Head(line) = "<unterminated>"

\* The time readStringUntil() waits for a further byte before it returns
\* what it has read (Stream timeout, 1000 ms unless set otherwise), in us.
StreamTimeout == 1000000

\* Mutant: readStringUntil() waits for the terminator without a timeout.
LoopRead_noTimeout ==
  IF rxBuffer = <<>>
  THEN loop(NoCommand) /\ UNCHANGED rxBuffer
  ELSE /\ ~IsUnterminated(Head(rxBuffer))
       /\ loop(Head(rxBuffer)) /\ rxBuffer' = Tail(rxBuffer)

\* Mutant: loop() reads the line received last.
LoopRead_newestFirst ==
  IF rxBuffer = <<>>
  THEN loop(NoCommand) /\ UNCHANGED rxBuffer
  ELSE loop(rxBuffer[Len(rxBuffer)]) /\ rxBuffer' = SubSeq(rxBuffer, 1, Len(rxBuffer) - 1)

\* loop() up to the sampling condition: if (Serial.available()) the oldest
\* line of the receive buffer is read and processed; a partial line is read
\* and processed when readStringUntil() has timed out.
LoopRead ==
  IF rxBuffer = <<>>
  THEN loop(NoCommand) /\ UNCHANGED rxBuffer
  ELSE /\ IF IsUnterminated(Head(rxBuffer))
          THEN loopWaiting(Tail(Head(rxBuffer)), StreamTimeout)
          ELSE loop(Head(rxBuffer))
       /\ rxBuffer' = Tail(rxBuffer)

\* The positions of the main program inside servo_write(), the output pin
\* high and delayMicroseconds(pulse_width) running.
ServoPositions == {"servo_steering", "servo_throttle"}

\* delayMicroseconds(unsigned int us) of an int pulse width.
DelayOf(pulse_width) == pulse_width % 65536

\* The second masked section and sendDataPacket; in autonomous mode
\* updateControlOutputs() is entered and servo_write() raises the steering
\* output pin.
SendData ==
  /\ SampleAndSend
  /\ Wrote(<<DataPacket>>)
  /\ IF autonomous_mode
     THEN pc' = "servo_steering" /\ UNCHANGED lastSampleTime
     ELSE pc' = "loop" /\ lastSampleTime' = currentTime

\* servo_write(STEERING_OUTPUT_PIN, steering_pulse) returns after the pulse
\* width has passed, and servo_write() raises the throttle output pin.
ServoSteeringDone ==
  /\ pc = "servo_steering"
  /\ pc' = "servo_throttle"
  /\ \E width \in steering_pulse(target_steering) :
       /\ clock' = clock + DelayOf(width)
       /\ Wrote(<<servo_write(STEERING_OUTPUT_PIN, width)>>)
  /\ command' = NoCommand
  /\ edge' = NoEdge
  /\ UNCHANGED <<chanVars, ctrlVars, lastSampleTime, currentTime, tickVars, rxBuffer,
                 sinceManual, lastRx, seen>>

\* servo_write(THROTTLE_OUTPUT_PIN, throttle_pulse) returns after the pulse
\* width has passed; the sampling tick ends.
ServoThrottleDone ==
  /\ pc = "servo_throttle"
  /\ pc' = "loop"
  /\ \E width \in throttle_pulse(target_throttle) :
       /\ clock' = clock + DelayOf(width)
       /\ Wrote(<<servo_write(THROTTLE_OUTPUT_PIN, width)>>)
  /\ lastSampleTime' = currentTime
  /\ command' = NoCommand
  /\ edge' = NoEdge
  /\ UNCHANGED <<chanVars, ctrlVars, currentTime, tickVars, rxBuffer, sinceManual, lastRx,
                 seen>>

\* Time passes between the steps of the main program (the time spent inside
\* servo_write() passes in ServoSteeringDone and ServoThrottleDone).
ElapseIdle(dt) ==
  /\ pc \notin ServoPositions
  /\ Elapse(dt)

NextSerial ==
  \/ setup
  \/ \E line \in BufferedLines : Receive(line)
  \/ LoopRead
  \/ SampleSteering
  \/ SendData
  \/ ServoSteeringDone
  \/ ServoThrottleDone
  \/ \E dt \in Delays : ElapseIdle(dt)

SpecSerial == Init /\ [][NextSerial]_vars

\* ------------------------------------------------------------------
\* Partial lines
\* ------------------------------------------------------------------
\* What the host may have sent when it stops in the middle of a line: the
\* bytes of a command with no terminator after them, and a whole command.
PartialLines ==
  { Unterminated(S_MODE \o S_AUTO),
    Unterminated(S_MODE \o <<"A", "U">>),
    Unterminated(S_CTRL \o <<"0", ".", "5", ",", "0", ".", "3", ",">>),
    Unterminated(S_STATUS),
    S_MODE \o S_MANUAL }

\* Such bytes arrive in an empty receive buffer, within the time explored.
ReceivePartial(line) ==
  /\ clock <= Epoch + MaxPeriods * SAMPLE_RATE_MS * 1000
  /\ rxBuffer = <<>>
  /\ Receive(line)

NextPartial ==
  \/ setup
  \/ \E line \in PartialLines : ReceivePartial(line)
  \/ LoopRead
  \/ SampleSteering
  \/ SampleThrottle
  \/ \E dt \in Delays : Elapse(dt)

SpecPartial == Init /\ [][NextPartial]_vars

\* ------------------------------------------------------------------
\* The firmware running on
\* ------------------------------------------------------------------
\* Lines and partial lines the host sends in the runs that follow the
\* firmware over time: a command, and the first bytes of a command with no
\* terminator (read after the timeout, they are a line that is no command).
LiveLines ==
  { S_MODE \o S_AUTO,
    Unterminated(<<"M", "O", "D", "E", ",", "A", "U">>) }

\* The time the runs are followed for (ms), and the states within it: the
\* main program has not read a later time yet.  From these the timer advances to
\* the next sampling tick.
LiveHorizon == MaxPeriods * SAMPLE_RATE_MS
WithinHorizon == lastSampleTime <= LiveHorizon /\ currentTime <= LiveHorizon

\* A line or a partial line arrives within that time, the one before it
\* having been read.
ReceiveLive(line) ==
  /\ WithinHorizon
  /\ rxBuffer = <<>>
  /\ Receive(line)

\* A rising edge on an input pin that has been low since reset.
RiseLive ==
  \/ throttle_pin = LOW /\ ThrottleEdge
  \/ steering_pin = LOW /\ SteeringEdge

\* Time passes while the main program is outside servo_write() and no
\* sampling tick is due.
ElapseLive(dt) ==
  /\ pc \notin ServoPositions
  /\ lastSampleTime <= LiveHorizon
  /\ ~Due(millis)
  /\ clock' = clock + dt
  /\ command' = NoCommand
  /\ Wrote(<<>>)
  /\ edge' = NoEdge
  /\ UNCHANGED <<pc, chanVars, ctrlVars, lastSampleTime, currentTime, tickVars, rxBuffer,
                 sinceManual, lastRx, seen>>

\* A step of the main program: setup(), or loop() from one of its positions.
MainProgram ==
  \/ setup
  \/ LoopRead
  \/ SampleSteering
  \/ SendData
  \/ ServoSteeringDone
  \/ ServoThrottleDone

NextLive ==
  \/ MainProgram
  \/ \E line \in LiveLines : ReceiveLive(line)
  \/ RiseLive
  \/ \E dt \in Delays : ElapseLive(dt)

\* The main program keeps being scheduled and time keeps passing.
SpecLive ==
  /\ Init
  /\ [][NextLive]_vars
  /\ WF_vars(MainProgram)
  /\ WF_vars(\E dt \in Delays : ElapseLive(dt))

\* ------------------------------------------------------------------
\* Vocabulary of the properties
\* ------------------------------------------------------------------
\* The serial lines and the output pulses the last step wrote, in order.
SerialOut == SelectSeq(out, LAMBDA e : e.kind = "serial")
PulsesOut == SelectSeq(out, LAMBDA e : e.kind = "pulse")

\* The last step was the part of loop() that processed an inbound line.
Processed == command # NoCommand

\* The last step was a sampling tick that wrote its DATA line.
Ticked == out # <<>> /\ out[1].kind = "serial" /\ startsWith(out[1].text, S_DATA)

\* The comma-separated fields of a line.
RECURSIVE Fields(_)
Fields(s) ==
  LET c == Find(s, Comma, 0)
  IN  IF c = -1 THEN <<s>>
      ELSE <<SubSeq(s, 1, c)>> \o Fields(SubSeq(s, c + 2, Len(s)))

\* A decimal number: optional sign, digits, optional fraction, nothing else.
IsNumeric(f) ==
  /\ Len(f) > 0
  /\ LET i1 == IF f[1] \in {"-", "+"} THEN 2 ELSE 1
         nInt == DigitRun(f, i1)
         iDot == i1 + nInt
         hasDot == iDot <= Len(f) /\ f[iDot] = "."
         nFrac == IF hasDot THEN DigitRun(f, iDot + 1) ELSE 0
     IN  /\ nInt + nFrac >= 1
         /\ (IF hasDot THEN iDot + 1 + nFrac ELSE iDot) = Len(f) + 1

\* The documented command forms a line can have.
IsCtrlForm(cmd) ==
  /\ Len(Fields(cmd)) = 3
  /\ Fields(cmd)[1] = <<"C", "T", "R", "L">>
  /\ IsNumeric(Fields(cmd)[2])
  /\ IsNumeric(Fields(cmd)[3])
IsCommandForm(cmd) ==
  \/ IsCtrlForm(cmd)
  \/ cmd = S_MODE \o S_AUTO
  \/ cmd = S_MODE \o S_MANUAL
  \/ cmd = S_STATUS

\* The values of a CTRL,<steering>,<throttle> line clamped to their ranges.
CtrlSteering(cmd) == constrain(toFloat(Fields(cmd)[2]), -Scale, Scale)
CtrlThrottle(cmd) == constrain(toFloat(Fields(cmd)[3]), 0, Scale)

NeutralTarget == target_steering = 0 /\ target_throttle = 0
TargetUnchanged == target_steering = pre.steering /\ target_throttle = pre.throttle
NeutralPulses == <<Pulse(STEERING_OUTPUT_PIN, SERVO_NEUTRAL_PULSE),
                   Pulse(THROTTLE_OUTPUT_PIN, SERVO_NEUTRAL_PULSE)>>

\* A float rounded half away from zero at the fourth decimal.
Round4(x) ==
  IF x = NaN THEN NaN
  ELSE IF x < 0 THEN -(((-x + 5) \div 10) * 10) ELSE ((x + 5) \div 10) * 10

\* The fields of the DATA line the last step wrote:
\* DATA,<ms>,<steering>,<throttle>,<steering us>,<throttle us>,<steering period>,<throttle period>
DataFields == Fields(out[1].text)
DataSteering == [norm |-> DataFields[3], raw |-> DataFields[5], period |-> DataFields[7]]
DataThrottle == [norm |-> DataFields[4], raw |-> DataFields[6], period |-> DataFields[8]]

\* What a DATA line shows for a channel whose shared values are s, with the
\* normalized value n.
Shown(s, n) == [norm |-> printFloat4(n), raw |-> printNumber(s.highTime),
                period |-> printNumber(s.period)]

\* ------------------------------------------------------------------
\* C1
\* ------------------------------------------------------------------
\* C1: whenever the firmware has processed a line CTRL,<steering>,<throttle>
\* with two numeric fields, the target is the two values clamped to their
\* ranges, the mode is AUTONOMOUS and exactly the line
\* CTRL_ACK,<steering>,<throttle> with the clamped values was written.
C1_CtrlAcknowledged ==
  (Processed /\ IsCtrlForm(command)) =>
     /\ autonomous_mode
     /\ target_steering = CtrlSteering(command)
     /\ target_throttle = CtrlThrottle(command)
     /\ SerialOut = <<SerialLine(S_CTRL_ACK \o printFloat4(CtrlSteering(command)) \o Comma
                                  \o printFloat4(CtrlThrottle(command)))>>

\* ------------------------------------------------------------------
\* C2
\* ------------------------------------------------------------------
\* C2: a sampling tick whose loop iteration started more than the watchdog
\* interval after the last inbound line finds the firmware in MANUAL with a
\* neutral target and drives no output.
C2_SilenceFailsafe ==
  (Ticked /\ currentTime * 1000 - lastRx > WatchdogPeriods * SAMPLE_RATE_MS * 1000) =>
     ~autonomous_mode /\ NeutralTarget /\ PulsesOut = <<>>

\* ------------------------------------------------------------------
\* C3
\* ------------------------------------------------------------------
\* C3: when MODE,MANUAL has been processed in AUTONOMOUS mode with a non-zero
\* target, the mode is MANUAL, the target is (0, 0), and the Output Generator
\* invocation that follows emitted the neutral 1500 us pulse on the steering
\* and on the throttle output pin.
C3_ManualResetsToNeutral ==
  (Processed /\ command = S_MODE \o S_MANUAL /\ pre.mode
     /\ (pre.steering # 0 \/ pre.throttle # 0)) =>
     ~autonomous_mode /\ NeutralTarget /\ PulsesOut = NeutralPulses

C3_Witness ==
  /\ Processed /\ command = S_MODE \o S_MANUAL
  /\ pre.mode /\ pre.steering # 0 /\ pre.throttle # 0
  /\ PulsesOut = NeutralPulses

\* ------------------------------------------------------------------
\* C4
\* ------------------------------------------------------------------
\* C4: from the processing of MODE,MANUAL until a later CTRL command is
\* accepted, every pulse driven on an actuator pin, by a sampling tick or
\* otherwise, has the neutral width of 1500 us.
C4_NoDriveAfterManual ==
  sinceManual => \A i \in 1..Len(PulsesOut) : PulsesOut[i].width = SERVO_NEUTRAL_PULSE

\* A sampling tick in AUTONOMOUS mode (re-entered by MODE,AUTO) that drove both
\* pins after MODE,MANUAL.
C4_Witness ==
  sinceManual /\ Ticked /\ autonomous_mode /\ Len(PulsesOut) = 2

\* ------------------------------------------------------------------
\* C5
\* ------------------------------------------------------------------
\* C5: in every reachable state the target steering lies in [-1, 1] and the
\* target throttle in [0, 1], and a processed CTRL,<steering>,<throttle>
\* line has stored its two values clamped to those ranges.
C5_TargetInRange ==
  /\ target_steering >= -Scale /\ target_steering <= Scale
  /\ target_throttle >= 0 /\ target_throttle <= Scale
  /\ (Processed /\ IsCtrlForm(command)) =>
        /\ target_steering = CtrlSteering(command)
        /\ target_throttle = CtrlThrottle(command)

\* ------------------------------------------------------------------
\* C6
\* ------------------------------------------------------------------
\* C6: a processed line that is none of CTRL,<steering>,<throttle>, MODE,AUTO,
\* MODE,MANUAL and STATUS wrote no serial line and left mode and target as
\* they were.
C6_MalformedIgnored ==
  (Processed /\ ~IsCommandForm(command)) =>
     SerialOut = <<>> /\ autonomous_mode = pre.mode /\ TargetUnchanged

\* ------------------------------------------------------------------
\* C7
\* ------------------------------------------------------------------
\* C7 (as amended): when STATUS has been processed, exactly one line
\* STATUS,<AUTO|MANUAL>,<steering>,<throttle> was written, its mode word is
\* the current mode, its two numbers read back as the current target rounded
\* to four decimals, the text is determined by mode and target (so a repeated
\* STATUS yields the same reply), no pulse was driven, and mode and target are
\* what they were before.
C7_StatusReportsState ==
  (Processed /\ command = S_STATUS) =>
     /\ Len(SerialOut) = 1
     /\ PulsesOut = <<>>
     /\ LET f == Fields(SerialOut[1].text)
        IN  /\ Len(f) = 4
            /\ f[1] = S_STATUS
            /\ f[2] = (IF autonomous_mode THEN S_AUTO ELSE S_MANUAL)
            /\ toFloat(f[3]) = Round4(target_steering)
            /\ toFloat(f[4]) = Round4(target_throttle)
            /\ f[3] = printFloat4(target_steering)
            /\ f[4] = printFloat4(target_throttle)
     /\ autonomous_mode = pre.mode
     /\ TargetUnchanged

\* STATUS answered in AUTONOMOUS mode with a target that has a fifth decimal.
C7_Witness ==
  /\ Processed /\ command = S_STATUS
  /\ autonomous_mode /\ pre.mode
  /\ target_steering = -12345
  /\ Len(SerialOut) = 1

\* C7 (as stated): the two numbers of the STATUS reply read back as exactly
\* the current target.
C7_StatusExact ==
  (Processed /\ command = S_STATUS) =>
     /\ Len(SerialOut) = 1
     /\ LET f == Fields(SerialOut[1].text)
        IN  /\ Len(f) = 4
            /\ f[2] = (IF autonomous_mode THEN S_AUTO ELSE S_MANUAL)
            /\ toFloat(f[3]) = target_steering
            /\ toFloat(f[4]) = target_throttle
     /\ autonomous_mode = pre.mode
     /\ TargetUnchanged

\* ------------------------------------------------------------------
\* C8
\* ------------------------------------------------------------------
\* C8: the mode is MANUAL before setup, and a step that found the mode MANUAL
\* and left it AUTONOMOUS was the processing of a CTRL,<steering>,<throttle>
\* line or of MODE,AUTO.
C8_AutoOnlyByCommand ==
  /\ pc = "setup" => ~autonomous_mode
  /\ (~pre.mode /\ autonomous_mode) =>
        Processed /\ (IsCtrlForm(command) \/ command = S_MODE \o S_AUTO)

\* ------------------------------------------------------------------
\* C9
\* ------------------------------------------------------------------
\* C9: when MODE,AUTO has been processed, exactly MODE_ACK,AUTO was written,
\* the mode is AUTONOMOUS and the target is what it was; when MODE,MANUAL has
\* been processed, exactly MODE_ACK,MANUAL was written and the mode is MANUAL.
C9_ModeAcknowledged ==
  /\ (Processed /\ command = S_MODE \o S_AUTO) =>
        /\ SerialOut = <<SerialLine(S_MODE_ACK \o S_AUTO)>>
        /\ autonomous_mode
        /\ TargetUnchanged
  /\ (Processed /\ command = S_MODE \o S_MANUAL) =>
        /\ SerialOut = <<SerialLine(S_MODE_ACK \o S_MANUAL)>>
        /\ ~autonomous_mode

\* MODE,AUTO acknowledged while a non-neutral target was held.
C9_Witness ==
  /\ Processed /\ command = S_MODE \o S_AUTO
  /\ pre.steering # 0 /\ target_steering = pre.steering
  /\ SerialOut = <<SerialLine(S_MODE_ACK \o S_AUTO)>>

\* ------------------------------------------------------------------
\* C10
\* ------------------------------------------------------------------
\* C10: nothing is written before setup has run; once it has run exactly one
\* ARDUINO_READY line has been written, whatever was written since; and a
\* step that writes ARDUINO_READY writes it as its first line.  So the line
\* is written once and precedes every DATA line and every acknowledgment.
C10_ReadyOnceFirst ==
  /\ pc = "setup" => (readyWritten = 0 /\ out = <<>>)
  /\ pc # "setup" => readyWritten = 1
  /\ \A i \in 1..Len(out) : out[i] = SerialLine(S_READY) => i = 1

\* A sampling tick has written its DATA line after the one ARDUINO_READY.
C10_Witness ==
  readyWritten = 1 /\ Ticked

\* ------------------------------------------------------------------
\* C11
\* ------------------------------------------------------------------
\* C11: a sampling tick of the control firmware writes exactly one serial
\* line, a DATA line, and for a channel on which no new cycle was flagged
\* since the previous tick the line shows the channel's last measured high
\* time and period and the value normalized from them.
C11_StaleReported ==
  (Ticked /\ ~Recorder) =>
     /\ Len(SerialOut) = 1
     /\ ~seen.steering.new =>
          DataSteering = Shown(seen.steering,
                               calculateSteeringNormalized(seen.steering.highTime,
                                                           seen.steering.period))
     /\ ~seen.throttle.new =>
          DataThrottle = Shown(seen.throttle,
                               calculateThrottleNormalized(seen.throttle.highTime,
                                                           seen.throttle.period))

\* ------------------------------------------------------------------
\* C12
\* ------------------------------------------------------------------
\* C12: in every DATA line, of either firmware, the normalized steering value
\* reads as a number in [-1, 1] and the normalized throttle value as a number
\* in [0, 1].
C12_NormalizedInRange ==
  Ticked =>
     /\ toFloat(DataSteering.norm) >= -Scale /\ toFloat(DataSteering.norm) <= Scale
     /\ toFloat(DataThrottle.norm) >= 0 /\ toFloat(DataThrottle.norm) <= Scale

\* A DATA line for a steering duty cycle left of the calibrated range, where
\* the clamp acted.
C12_Witness ==
  /\ Ticked
  /\ seen.steering.highTime = 900 /\ seen.steering.period = 20000
  /\ toFloat(DataSteering.norm) = -Scale

\* ------------------------------------------------------------------
\* C13
\* ------------------------------------------------------------------
\* C13: in the recorder firmware, when a handler has run on a falling edge of
\* its channel before any rising edge of the channel was handled, the
\* channel's highTime and period are zero.
C13_FirstEdgeGuard ==
  (Recorder /\ edge.chan # "none" /\ edge.level = LOW /\ edge.rises = 0) =>
     /\ edge.chan = "throttle" => (throttle_highTime = 0 /\ throttle_period = 0)
     /\ edge.chan = "steering" => (steering_highTime = 0 /\ steering_period = 0)

\* ------------------------------------------------------------------
\* C14
\* ------------------------------------------------------------------
\* C14: in the recorder firmware, when a handler has run on an edge of its
\* channel after a rising edge of the channel, the microsecond counter having
\* wrapped in between, the interval since that rising edge modulo the word is
\* the channel's period (rising edge) or highTime (falling edge).
C14_WrapSafeInterval ==
  (Recorder /\ edge.chan # "none" /\ edge.rises > 0 /\ edge.now < edge.rise) =>
     LET interval == U32(edge.now - edge.rise + WordModulus)
     IN  /\ (edge.chan = "throttle" /\ edge.level = HIGH) => throttle_period = interval
         /\ (edge.chan = "throttle" /\ edge.level = LOW) => throttle_highTime = interval
         /\ (edge.chan = "steering" /\ edge.level = HIGH) => steering_period = interval
         /\ (edge.chan = "steering" /\ edge.level = LOW) => steering_highTime = interval

\* ------------------------------------------------------------------
\* C15
\* ------------------------------------------------------------------
\* C15: when a sampling tick, of either firmware, found highTime and period
\* of a channel both non-zero, highTime was at most period.
C15_HighTimeWithinPeriod ==
  Ticked =>
     /\ (seen.steering.highTime # 0 /\ seen.steering.period # 0) =>
           seen.steering.highTime <= seen.steering.period
     /\ (seen.throttle.highTime # 0 /\ seen.throttle.period # 0) =>
           seen.throttle.highTime <= seen.throttle.period

\* ------------------------------------------------------------------
\* C16
\* ------------------------------------------------------------------
\* C16: in the control firmware, while fewer than two rising edges of a
\* channel have been handled, the channel's highTime and period are zero.
C16_ZeroUntilFirstCycle ==
  ~Recorder =>
     /\ rises.throttle < 2 => (throttle_highTime = 0 /\ throttle_period = 0)
     /\ rises.steering < 2 => (steering_highTime = 0 /\ steering_period = 0)

C18_EveryEdgeHandledOnce ==
  edge.chan # "none" => edge.owed = <<edge.level>>

\* ------------------------------------------------------------------
\* C19
\* ------------------------------------------------------------------
\* C19: while an output pin is held high for a pulse and a command line waits
\* in the receive buffer, the main loop can start an iteration and read it.
C19_LoopRunsDuringPulse ==
  (pc \in ServoPositions /\ rxBuffer # <<>>) => ENABLED LoopRead

\* ------------------------------------------------------------------
\* C20
\* ------------------------------------------------------------------
\* The first characters of the reply to a command line.
ReplyPrefix(cmd) ==
  IF startsWith(cmd, S_CTRL) THEN S_CTRL_ACK
  ELSE IF startsWith(cmd, S_MODE) THEN S_MODE_ACK
  ELSE S_STATUS \o Comma

IsReply(line) ==
  \/ startsWith(line.text, S_CTRL_ACK)
  \/ startsWith(line.text, S_MODE_ACK)
  \/ startsWith(line.text, S_STATUS \o Comma)

\* C20: the step that processes a line processes the oldest line of the
\* receive buffer and writes at most one serial line, the reply to that line
\* and no DATA line; it writes the reply if the line changed mode or target
\* or is STATUS; and no other step writes a reply.  So replies are written
\* in the order of reception, each before the DATA line of any later tick.
C20_RepliesInOrder ==
  /\ Processed =>
        /\ pre.rx # <<>>
        /\ command = trim(Head(pre.rx))
        /\ rxBuffer = Tail(pre.rx)
        /\ Len(SerialOut) <= 1
        /\ \A i \in 1..Len(SerialOut) : startsWith(SerialOut[i].text, ReplyPrefix(command))
        /\ (autonomous_mode # pre.mode \/ ~TargetUnchanged \/ command = S_STATUS) =>
              Len(SerialOut) = 1
  /\ ~Processed => \A i \in 1..Len(SerialOut) : ~IsReply(SerialOut[i])

\* Two different lines waited in the receive buffer; the older one was
\* processed and answered, the newer one still waits.
C20_Witness ==
  /\ Processed
  /\ Len(pre.rx) = 2 /\ pre.rx[1] # pre.rx[2]
  /\ Len(SerialOut) = 1
  /\ rxBuffer = <<pre.rx[2]>>

\* ------------------------------------------------------------------
\* C21
\* ------------------------------------------------------------------
\* C21: when a sampling tick of the control firmware or of pwm_recorder.ino
\* found on the steering channel a duty cycle highTime / period * 100 below
\* the floor of 5 %, the normalized steering value is the neutral value 0.
\* (The floor of the throttle channel is 0 %: no duty cycle is below it.)
C21_BelowFloorNeutral ==
  (Ticked /\ ~Enhanced /\ seen.steering.period > 0
     /\ 100 * seen.steering.highTime < 5 * seen.steering.period) =>
        seen.steering.norm = 0

\* ------------------------------------------------------------------
\* C22
\* ------------------------------------------------------------------
\* C22: a sampling tick of pwm_recorder.ino that found a throttle high time
\* below 50 us or a throttle period below 500 us normalizes the throttle to 0
\* and shows 0.0000; one that found a steering high time below 50 us or a
\* steering period below 10000 us does the same for the steering; and the
\* tick writes its DATA line whatever the periods are, zero included (a
\* division by a zero period would end the evaluation of the step).
C22_InvalidIsNeutral ==
  (Ticked /\ Recorder) =>
     /\ Len(SerialOut) = 1
     /\ (seen.throttle.highTime < 50 \/ seen.throttle.period < 500) =>
           (seen.throttle.norm = 0 /\ DataThrottle.norm = printFloat4(0))
     /\ (seen.steering.highTime < 50 \/ seen.steering.period < 10000) =>
           (seen.steering.norm = 0 /\ DataSteering.norm = printFloat4(0))

\* A tick of the recorder that found a pulse of valid width with a period of
\* zero on both channels.
C22_Witness ==
  /\ Ticked /\ Recorder
  /\ seen.throttle.highTime = 500 /\ seen.throttle.period = 0
  /\ seen.steering.highTime = 500 /\ seen.steering.period = 0
  /\ DataThrottle.norm = printFloat4(0)

\* ------------------------------------------------------------------
\* C23
\* ------------------------------------------------------------------
\* A measurement the throttle Normalizer of the firmware that runs takes as
\* valid, and the value it returns for one.
ThrottleValid(m) ==
  IF Recorder THEN m.highTime >= 50 /\ m.period >= 500 ELSE m.period > 0
ThrottleOf(m) ==
  IF Recorder THEN pwm_recorder_calculateThrottleNormalized(m.highTime, m.period)
  ELSE calculateThrottleNormalized(m.highTime, m.period)

\* C23: when a sampling tick of the control firmware or of pwm_recorder.ino
\* normalized a valid throttle measurement, the value is 1 if the duty cycle
\* is above 70 %, otherwise it is duty / 70 (compared to three decimals), and
\* no valid measurement of a smaller or equal duty cycle normalizes to more.
C23_ThrottleMonotone ==
  (Ticked /\ ~Enhanced /\ (Recorder \/ seen.throttle.new) /\ ThrottleValid(seen.throttle)) =>
     LET h == seen.throttle.highTime
         p == seen.throttle.period
         n == seen.throttle.norm
     IN  /\ 10 * h > 7 * p => n = Scale
         /\ 10 * h <= 7 * p => n \div 100 = (10000 * h) \div (7 * p)
         /\ \A m \in Samples :
              (ThrottleValid(m) /\ m.highTime * p <= h * m.period) => ThrottleOf(m) <= n

\* Ticks that normalized a duty cycle of 35 % to 0.5, and one of 80 % to 1.
C23_Witness ==
  /\ Ticked /\ ~Enhanced
  /\ \/ (seen.throttle.highTime = 350 /\ seen.throttle.period = 1000
           /\ seen.throttle.norm = Scale \div 2)
     \/ (seen.throttle.highTime = 800 /\ seen.throttle.period = 1000
           /\ seen.throttle.norm = Scale)

\* ------------------------------------------------------------------
\* C24
\* ------------------------------------------------------------------
\* A measurement the steering Normalizer of the firmware that runs takes as
\* valid.
SteeringValid(m) ==
  IF Recorder THEN m.highTime >= 50 /\ m.period >= 10000 ELSE m.period > 0

\* C24: when a sampling tick of the control firmware or of pwm_recorder.ino
\* normalized a valid steering measurement, the value is 0 at a duty cycle of
\* 7 %, -1 at a duty cycle of 5 % or less and +1 at one of 9.2 % or more.
C24_SteeringCalibration ==
  (Ticked /\ ~Enhanced /\ (Recorder \/ seen.steering.new) /\ SteeringValid(seen.steering)) =>
     LET h == seen.steering.highTime
         p == seen.steering.period
         n == seen.steering.norm
     IN  /\ 100 * h = 7 * p => n = 0
         /\ 100 * h <= 5 * p => n = -Scale
         /\ 1000 * h >= 92 * p => n = Scale

\* ------------------------------------------------------------------
\* C27
\* ------------------------------------------------------------------
\* C27: when a sampling tick of enhanced_pwm_recorder.ino normalized a valid
\* steering pulse width (100 us or more), the value is negative below 1491 us
\* and -1 at 1041 us or less, 0 at 1491 us, positive above 1491 us and +1 at
\* 1941 us or more.
C27_PulseWidthSteering ==
  (Ticked /\ Enhanced /\ seen.steering.highTime >= 100) =>
     LET w == seen.steering.highTime
         n == seen.steering.norm
     IN  /\ w < STEERING_NEUTRAL_US => n < 0
         /\ w <= STEERING_NEUTRAL_US - STEERING_RANGE_US => n = -Scale
         /\ w = STEERING_NEUTRAL_US => n = 0
         /\ w > STEERING_NEUTRAL_US => n > 0
         /\ w >= STEERING_NEUTRAL_US + STEERING_RANGE_US => n = Scale

\* ------------------------------------------------------------------
\* C25
\* ------------------------------------------------------------------
\* C25: with a steady signal on each pin, a sampling tick of pwm_recorder.ino
\* that comes after the second rising edge of a channel finds the high time
\* and the period of the channel's signal and shows them in its DATA line;
\* the throttle at 900 Hz and 50 % then normalizes to 0.71 (two decimals) and
\* the steering at 50 Hz and 7 % to 0.
C25_SteadyMeasured ==
  (Ticked /\ Recorder) =>
     /\ rises.throttle = 2 =>
           /\ seen.throttle.highTime = SteadyHigh("throttle")
           /\ seen.throttle.period = SteadyPeriod("throttle")
           /\ DataThrottle = Shown(seen.throttle, seen.throttle.norm)
           /\ seen.throttle.norm \div 1000 = 71
     /\ rises.steering = 2 =>
           /\ seen.steering.highTime = SteadyHigh("steering")
           /\ seen.steering.period = SteadyPeriod("steering")
           /\ DataSteering = Shown(seen.steering, seen.steering.norm)
           /\ seen.steering.norm = 0

\* A tick after the second rising edge of both channels that falls inside a
\* steering pulse, with further transitions still to come.
C25_Witness ==
  /\ Ticked /\ Recorder
  /\ rises.throttle = 2 /\ rises.steering = 2
  /\ steering_pin = HIGH
  /\ signal # <<>>

\* ------------------------------------------------------------------
\* C26
\* ------------------------------------------------------------------
\* C26: from every state within the time the runs are followed for, whatever
\* lines, partial lines and edges have arrived and arrive, if the main
\* program keeps being scheduled a sampling tick eventually writes a DATA
\* line.
C26_DataKeepsComing == WithinHorizon ~> Ticked

\* A DATA line written after the main program has waited for the rest of a
\* partial line and has emitted output pulses in an earlier tick.
C26_Witness ==
  /\ Ticked
  /\ clock >= StreamTimeout
  /\ autonomous_mode
  /\ lastSampleTime >= SAMPLE_RATE_MS

\* ------------------------------------------------------------------
\* C28
\* ------------------------------------------------------------------
\* C28: in the control firmware no handler of either channel runs between
\* the steering section and the throttle section of one sampling tick, so
\* the two channels are read as they were at one instant.
C28_SnapshotAtOneInstant ==
  (~Recorder /\ pc = "throttle") => edge.chan = "none"

\* ------------------------------------------------------------------
\* C29
\* ------------------------------------------------------------------
\* C29: a masked section of the Sampler only copies the shared fields and
\* clears the flag, the Normalizer being invoked after interrupts are enabled
\* again: at the instant the steering section of the control firmware ends,
\* the normalized steering value of the tick is still its initial 0.0.
C29_MaskedCopiesOnly ==
  pc = "throttle" => steer_norm = 0

\* ------------------------------------------------------------------
\* C30
\* ------------------------------------------------------------------
\* C30: a run of the handler of one channel leaves the timing state of the
\* other channel (last rise, high time, period, new-cycle flag, and the
\* handler's static rise time), the mode and the target as they were, and
\* writes nothing: no serial line and no output pulse.
C30_HandlerOwnChannelOnly ==
  [][edge'.chan # "none" =>
        /\ edge'.chan = "throttle" => UNCHANGED steeringVars
        /\ edge'.chan = "steering" => UNCHANGED throttleVars
        /\ UNCHANGED ctrlVars
        /\ out' = <<>>]_vars

\* A run of the steering handler of the control firmware for a rising edge,
\* in autonomous mode with a target set, the throttle channel holding a
\* measured high time whose flag is raised.
C30_Witness ==
  /\ edge.chan = "steering" /\ edge.level = HIGH /\ ~Recorder
  /\ autonomous_mode /\ target_steering # 0
  /\ throttle_highTime > 0 /\ throttle_newCycle
  /\ steering_riseTime > 0

\* ------------------------------------------------------------------
\* C31
\* ------------------------------------------------------------------
\* C31: in the control firmware the new-cycle flag of a channel is raised
\* only by a run of that channel's handler that reads the pin low while a
\* rise time is recorded, and is lowered only by the masked section of the
\* sampling tick that copies the channel's high time and period, which the
\* DATA line of that tick then shows; so no flagged cycle is cleared
\* without being reported.
C31_FlagSetAndCleared ==
  [][/\ (~throttle_newCycle /\ throttle_newCycle') =>
          (edge'.chan = "throttle" /\ edge'.level = LOW /\ throttle_lastRiseTime > 0)
     /\ (~steering_newCycle /\ steering_newCycle') =>
          (edge'.chan = "steering" /\ edge'.level = LOW /\ steering_riseTime > 0)
     /\ (steering_newCycle /\ ~steering_newCycle') =>
          (pc = "steering" /\ steer_raw' = steering_highTime
             /\ steer_period_val' = steering_period)
     /\ (throttle_newCycle /\ ~throttle_newCycle') =>
          (pc = "throttle" /\ out' # <<>>
             /\ LET shown == Fields(out'[1].text)
                IN  /\ shown[1] = <<"D", "A", "T", "A">>
                    /\ shown[5] = printNumber(steer_raw)
                    /\ shown[6] = printNumber(throttle_highTime)
                    /\ shown[7] = printNumber(steer_period_val)
                    /\ shown[8] = printNumber(throttle_period))]_vars

\* A steering cycle completed after the steering section of a tick had
\* copied and cleared an earlier one: the flag stands again when the DATA
\* line of that tick has been written.
C31_Witness ==
  /\ Ticked /\ ~Recorder
  /\ seen.steering.new
  /\ steering_newCycle
  /\ steering_highTime # seen.steering.highTime

\* ------------------------------------------------------------------
\* C32
\* ------------------------------------------------------------------
\* C32: when a handler runs on an edge of its channel after a rising edge
\* of the channel that was stamped with the clock value 0, the interval since
\* that rising edge (the clock value now) is the channel's period (rising
\* edge) or highTime (falling edge).
C32_ZeroStampCounts ==
  (edge.chan # "none" /\ edge.rises > 0 /\ edge.rise = 0) =>
     /\ (edge.chan = "throttle" /\ edge.level = HIGH) => throttle_period = edge.now
     /\ (edge.chan = "throttle" /\ edge.level = LOW) => throttle_highTime = edge.now
     /\ (edge.chan = "steering" /\ edge.level = HIGH) => steering_period = edge.now
     /\ (edge.chan = "steering" /\ edge.level = LOW) => steering_highTime = edge.now

\* ------------------------------------------------------------------
\* C33
\* ------------------------------------------------------------------
\* C33: every pulse a step emits on an output pin is 1000 to 2000
\* microseconds wide and, up to the truncation to whole microseconds, as wide
\* as 1500 + 500 * target, for the steering and the throttle target alike.
C33_PulseWithinRange ==
  \A i \in 1..Len(PulsesOut) :
    LET p == PulsesOut[i]
        target == IF p.pin = STEERING_OUTPUT_PIN THEN target_steering ELSE target_throttle
    IN  /\ p.width >= SERVO_MIN_PULSE /\ p.width <= SERVO_MAX_PULSE
        /\ Abs(p.width * Scale - (SERVO_NEUTRAL_PULSE * Scale + 500 * target)) < Scale

\* ------------------------------------------------------------------
\* C34
\* ------------------------------------------------------------------
\* The pulse is as wide as 1500 + 500 * target up to truncation (any width
\* counts for a target that is not a number).
WidthFor(target, width) ==
  target # NaN => Abs(width * Scale - (SERVO_NEUTRAL_PULSE * Scale + 500 * target)) < Scale

\* C34: a sampling tick in autonomous mode writes its DATA line and then
\* emits exactly two pulses, the first on the steering output and the second
\* on the throttle output, their widths being those of the target in force;
\* a sampling tick in manual mode writes its DATA line and emits no pulse.
C34_PulsesPerTick ==
  Ticked =>
    IF autonomous_mode
    THEN /\ Len(out) = 3
         /\ out[2].kind = "pulse" /\ out[2].pin = STEERING_OUTPUT_PIN
         /\ WidthFor(target_steering, out[2].width)
         /\ out[3].kind = "pulse" /\ out[3].pin = THROTTLE_OUTPUT_PIN
         /\ WidthFor(target_throttle, out[3].width)
    ELSE Len(out) = 1

\* A tick in autonomous mode with the target (0.5, 0.3) of an accepted CTRL
\* line: pulses of 1750 and 1650 microseconds after the DATA line.
C34_Witness ==
  /\ Ticked /\ autonomous_mode
  /\ target_steering = Scale \div 2
  /\ Len(out) = 3 /\ out[2].width = 1750 /\ out[3].width = 1650

\* ------------------------------------------------------------------
\* C35
\* ------------------------------------------------------------------
\* C35: when the main program has read bytes that no line terminator
\* followed, the step changes neither the mode nor the target and writes no
\* line to the serial port.
C35_PartialLineInert ==
  (Processed /\ pre.rx # <<>> /\ IsUnterminated(Head(pre.rx))) =>
     /\ autonomous_mode = pre.mode
     /\ target_steering = pre.steering
     /\ target_throttle = pre.throttle
     /\ SerialOut = <<>>

\* ------------------------------------------------------------------
\* C36
\* ------------------------------------------------------------------
\* C36: a step that writes a DATA line stamps it with the time that becomes
\* the time of the last tick, at least SAMPLE_RATE_MS after the time of the
\* tick before (modulo the word, so also across the wrap of millis()); and
\* an iteration of loop() that starts no tick finds less than SAMPLE_RATE_MS
\* elapsed since the last tick, so no tick is skipped.
C36_TickSpacing ==
  [][/\ (out' # <<>> /\ out'[1].kind = "serial" /\ startsWith(out'[1].text, S_DATA)) =>
          /\ Fields(out'[1].text)[2] = printNumber(lastSampleTime')
          /\ U32(lastSampleTime' - lastSampleTime + WordModulus) >= SAMPLE_RATE_MS
     /\ (pc = "loop" /\ pc' = "loop" /\ UNCHANGED <<clock, nEdges>>) =>
          U32(millis - lastSampleTime + WordModulus) < SAMPLE_RATE_MS]_vars

\* A DATA line written after millis() has wrapped, the tick before it
\* having taken place before the wrap.
C36_Witness ==
  /\ Ticked
  /\ clock >= MillisWrap
  /\ lastSampleTime < SAMPLE_RATE_MS

\* ------------------------------------------------------------------
\* C37
\* ------------------------------------------------------------------
\* C37: in every reachable state of the control firmware manual mode goes
\* with the neutral target, and a MODE line that has switched the firmware
\* from manual to autonomous mode leaves it with the neutral target.
C37_ManualIsNeutral ==
  /\ ~autonomous_mode => (target_steering = 0 /\ target_throttle = 0)
  /\ (Processed /\ startsWith(command, S_MODE) /\ ~pre.mode /\ autonomous_mode) =>
        (target_steering = 0 /\ target_throttle = 0)

\* MODE,AUTO processed in manual mode, to which MODE,MANUAL had switched.
C37_Witness ==
  /\ Processed /\ startsWith(command, S_MODE)
  /\ ~pre.mode /\ autonomous_mode
  /\ sinceManual

\* ------------------------------------------------------------------
\* C38
\* ------------------------------------------------------------------
\* The number a field of decimal digits shows.
NumberShown(field) == DigitsValue(field, 1, Len(field))

\* C38: in every DATA line of the control firmware the normalized steering
\* value is the one calculateSteeringNormalized gives for the steering high
\* time and period shown in that line, and the normalized throttle value the
\* one calculateThrottleNormalized gives for the throttle high time and
\* period shown in it (as printed, with four decimals).
C38_NormalizedFromShown ==
  (Ticked /\ ~Recorder /\ ~Enhanced) =>
     /\ DataSteering.norm =
          printFloat4(calculateSteeringNormalized(NumberShown(DataSteering.raw),
                                                  NumberShown(DataSteering.period)))
     /\ DataThrottle.norm =
          printFloat4(calculateThrottleNormalized(NumberShown(DataThrottle.raw),
                                                  NumberShown(DataThrottle.period)))

\* A DATA line of the control firmware for a flagged steering cycle whose
\* normalized value is neither neutral nor clamped.
C38_Witness ==
  /\ Ticked /\ ~Recorder /\ ~Enhanced
  /\ seen.steering.new
  /\ seen.steering.norm # 0
  /\ Abs(seen.steering.norm) < Scale
  /\ DataSteering.norm = printFloat4(seen.steering.norm)

\* ------------------------------------------------------------------
\* C39
\* ------------------------------------------------------------------
\* C39: in enhanced_pwm_recorder.ino the throttle period a DATA line shows
\* is the value the shared throttle_period held when the masked section of
\* the tick read the shared values, and the normalized throttle of the line
\* is computed with that period.
C39_SharedPeriodReported ==
  (Ticked /\ Enhanced) =>
     /\ DataThrottle.period = printNumber(seen.throttle.period)
     /\ DataThrottle.norm =
          printFloat4(enhanced_calculateThrottleNormalized(seen.throttle.highTime,
                                                           seen.throttle.period))

\* ------------------------------------------------------------------
\* C40
\* ------------------------------------------------------------------
\* The step wrote a report of the debug reader, with these fields.
Reported == pc = "debug_loop" /\ Len(out) = 2
ReportFields == [k \in 1..7 |-> NumberShown(Fields(out[1].text)[k])]

\* C40: every report of the debug reader shows, for each channel, as many
\* interrupts as high edges and low edges together; and at every moment the
\* runs of a channel's handler since reset are those the reports written so
\* far show, those copied and about to be reported, and those counted since
\* the last masked section: none is lost and none is counted twice.
C40_CountersAccounted ==
  /\ Reported => /\ ReportFields[2] = ReportFields[3] + ReportFields[4]
                 /\ ReportFields[5] = ReportFields[6] + ReportFields[7]
  /\ handled.throttle = reported.throttle + throttle_interrupts
                          + (IF pc = "debug_report" THEN t_ints ELSE 0)
  /\ handled.steering = reported.steering + steering_interrupts
                          + (IF pc = "debug_report" THEN s_ints ELSE 0)

\* A second report (two seconds after reset or later) that shows throttle
\* interrupts, runs of both handlers being accounted for by the reports and
\* every transition explored having been handled.
C40_Witness ==
  /\ Reported
  /\ reported.throttle >= 2 /\ reported.steering >= 1
  /\ ReportFields[2] >= 1
  /\ ReportFields[1] >= 2000
  /\ handled.throttle + handled.steering = MaxSignalEdges

=============================================================================
